---- MODULE Spec2Model ----
(***************************************************************************)
(* simple-nostr: key/record codec (Nostr, NostrKeyPair, NostrPublicKey)    *)
(* and the WebSocket relay pool (NostrRelayPool).                          *)
(*                                                                         *)
(* Byte strings are sequences of 0..255, hex strings are sequences of      *)
(* one-character strings.  JSON text is modelled by the value it encodes.  *)
(* The primitives imported from @noble (sha256, schnorr) are replaced by   *)
(* stand-ins with the same signatures and lengths that are collision free  *)
(* on the sample universe below.                                           *)
(***************************************************************************)
EXTENDS Integers, Sequences, FiniteSets, TLC

VARIABLES
    verifyEvents,   \* NostrRelayPool.verifyEvents
    relays,         \* keys of NostrRelayPool.relays (url -> WebSocket)
    readyState,     \* WebSocket.readyState of the socket created for each url
    subscriptions,  \* NostrRelayPool.subscriptions (subId -> set of urls)
    last,           \* the operation or transport event handled last, with its inputs
    sent,           \* ws.send calls made by the last step: set of <<url, message>>
    closeCalls,     \* ws.close calls made by the last step: set of <<url, code>>
    fired,          \* callbacks invoked by the last step, in order
    skipped,        \* history: urls some publish call targeted while not Open
    raised,         \* whether the last step ended by throwing to its caller
    handlers,       \* the on...Callback fields: callback name -> handler
    queue,          \* message events the transport has queued for the event loop
    dispatched,     \* history: the message events handled so far, in order
    timers,         \* the intervals enablePing has set, in order of creation
    oldPools        \* the pools the page has closed and replaced, oldest first

vars == <<verifyEvents, relays, readyState, subscriptions, last, sent,
          closeCalls, fired, skipped, raised, handlers, queue, dispatched,
              timers, oldPools>>

\* the variables no codec operation touches
poolVars == <<verifyEvents, relays, readyState, subscriptions, sent,
              closeCalls, fired, skipped, raised, handlers, queue, dispatched,
              timers, oldPools>>

\* the variables only the event loop and the registration methods touch
loopVars == <<handlers, queue, dispatched, timers, oldPools>>

(***************************************************************************)
(* Bounds                                                                  *)
(***************************************************************************)
MaxCtorUrls == 2    \* length of the url list handed to the constructor
MaxKeys == 2        \* sample private keys
MaxAux == 2         \* sample auxiliary random values for signing
MaxArrivals == 3    \* message events the transport delivers in one run
MaxHandlers == 3    \* handler functions the application registers in one run
MaxTimers == 2      \* enablePing calls in one run
MaxReconnects == 1  \* connectRelays calls of the page after the first

(***************************************************************************)
(* Hex codec (@noble/hashes/utils bytesToHex, hexToBytes)                  *)
(***************************************************************************)
KeyLen == 32
SigLen == 2 * KeyLen

HexDigits == <<"0", "1", "2", "3", "4", "5", "6", "7",
               "8", "9", "a", "b", "c", "d", "e", "f">>

UpperDigits == <<"A", "B", "C", "D", "E", "F">>

bytesToHex(bytes) ==
    [i \in 1..(2 * Len(bytes)) |->
        LET b == bytes[(i + 1) \div 2]
        IN  IF i % 2 = 1 THEN HexDigits[(b \div 16) + 1]
                         ELSE HexDigits[(b % 16) + 1]]

\* the value of each hex digit, upper or lower case
DigitValue ==
    [c \in {HexDigits[d] : d \in 1..16} \cup {UpperDigits[d] : d \in 1..6} |->
        IF \E d \in 1..16 : HexDigits[d] = c
        THEN (CHOOSE d \in 1..16 : HexDigits[d] = c) - 1
        ELSE (CHOOSE d \in 1..6 : UpperDigits[d] = c) + 9]

HexValue(c) == IF c \in DOMAIN DigitValue THEN DigitValue[c] ELSE -1

\* hexToBytes throws on an odd length and on a character that is no hex digit
hexWellFormed(hex) ==
    /\ Len(hex) % 2 = 0
    /\ \A i \in 1..Len(hex) : HexValue(hex[i]) >= 0

hexToBytes(hex) ==
    [i \in 1..(Len(hex) \div 2) |->
        16 * HexValue(hex[2 * i - 1]) + HexValue(hex[2 * i])]

(***************************************************************************)
(* Sample universe                                                         *)
(***************************************************************************)
PrivateKeyBytes(k) == [i \in 1..KeyLen |-> k]

\* schnorr.getPublicKey: deterministic, injective on the sample keys
schnorrGetPublicKey(privateKeyBytes) ==
    [i \in 1..Len(privateKeyBytes) |-> (3 * privateKeyBytes[i] + 1) % 256]

KeyIds == 1..MaxKeys

PubkeyHexOf(k) == bytesToHex(schnorrGetPublicKey(PrivateKeyBytes(k)))

\* author fields seen by the codec: the sample public keys and a string that
\* is not hex
BadHex == <<"z", "z">>

PubkeySamples == [k \in 1..(MaxKeys + 1) |->
                    IF k <= MaxKeys THEN PubkeyHexOf(k) ELSE BadHex]

ContentSamples == <<"hello", "bye">>

TagSamples == << <<>>,
                 << <<"t", "a">>, <<"t", "b">> >>,
                 << <<"t", "b">>, <<"t", "a">> >>,
                 << <<"t", "a">>, <<"t", "a">>, <<"t", "b">> >>,
                 << <<"a", "t">>, <<"t", "b">> >> >>

CreatedAtSamples == {0, 1}
KindSamples == {0, 1}

AuxBytes(a) == [i \in 1..KeyLen |-> 16 * a]

IndexIn(seq, v) == CHOOSE i \in 1..Len(seq) : seq[i] = v

(***************************************************************************)
(* Record codec (Nostr.signEvent, Nostr.verifyEvent)                       *)
(***************************************************************************)
\* JSON.stringify([0, pubkey, created_at, kind, tags, content]): the text is
\* an injective function of the array, which stands for it here
\* a serialization that sorts the tags and drops repeated ones
SerializeCanonTags(event) ==
    LET elems(t) == {t[i] : i \in 1..Len(t)}
        first == CHOOSE i \in 1..Len(TagSamples) :
                    /\ elems(TagSamples[i]) = elems(event.tags)
                    /\ \A j \in 1..(i - 1) :
                          elems(TagSamples[j]) # elems(event.tags)
    IN  <<0, event.pubkey, event.created_at, event.kind, TagSamples[first],
          event.content>>

\* a serialization that leaves the content out
SerializeNoContent(event) ==
    <<0, event.pubkey, event.created_at, event.kind, event.tags,
      ContentSamples[1]>>

Serialize(event) ==
    <<0, event.pubkey, event.created_at, event.kind, event.tags, event.content>>

\* sha256(new TextEncoder().encode(serialized)): 32 bytes, distinct for
\* distinct serializations of the sample universe
SerialCode(s) ==
    ((((IndexIn(PubkeySamples, s[2]) - 1) * 2 + s[3]) * 2 + s[4])
        * Len(TagSamples) + (IndexIn(TagSamples, s[5]) - 1))
        * Len(ContentSamples) + (IndexIn(ContentSamples, s[6]) - 1)

sha256(s) ==
    [i \in 1..KeyLen |->
        IF i = KeyLen THEN SerialCode(s) % 256
        ELSE IF i = KeyLen - 1 THEN (SerialCode(s) \div 256) % 256
        ELSE 90]

\* schnorr.sign(hash, privateKey, auxRand): 64 bytes, nonce part then proof
schnorrSign(hash, privateKeyBytes, aux) ==
    LET pub == schnorrGetPublicKey(privateKeyBytes)
    IN  [i \in 1..SigLen |->
            IF i <= KeyLen THEN aux[i]
            ELSE (pub[i - KeyLen] + hash[i - KeyLen] + aux[i - KeyLen]) % 256]

\* schnorr.verify(sig, hash, publicKey): false (no throw) on wrong lengths
schnorrVerify(sig, hash, pub) ==
    /\ Len(sig) = SigLen
    /\ Len(pub) = KeyLen
    /\ Len(hash) = KeyLen
    /\ \A i \in 1..KeyLen :
          sig[KeyLen + i] = (pub[i] + hash[i] + sig[i]) % 256

Has(event, field) == field \in DOMAIN event

WithField(event, field, value) ==
    [f \in (DOMAIN event) \cup {field} |->
        IF f = field THEN value ELSE event[f]]

\* signEvent hashing the fields in another order than verifyEvent does
signEventKindFirst(event, hexOrBytes, aux) ==
    LET privateKeyBytes == IF hexOrBytes.type = "string"
                           THEN hexToBytes(hexOrBytes.value)
                           ELSE hexOrBytes.value
        serialized == <<0, event.pubkey, event.kind, event.created_at,
                        event.tags, event.content>>
        hash == sha256(serialized)
        sigBytes == schnorrSign(hash, privateKeyBytes, aux)
    IN  WithField(WithField(event, "id", bytesToHex(hash)), "sig",
                  bytesToHex(sigBytes))

\* signEvent spreading the record over the new id and sig
signEventKeepIncoming(event, hexOrBytes, aux) ==
    LET privateKeyBytes == IF hexOrBytes.type = "string"
                           THEN hexToBytes(hexOrBytes.value)
                           ELSE hexOrBytes.value
        hash == sha256(Serialize(event))
        sigBytes == schnorrSign(hash, privateKeyBytes, aux)
    IN  [f \in (DOMAIN event) \cup {"id", "sig"} |->
            IF f \in DOMAIN event THEN event[f]
            ELSE IF f = "id" THEN bytesToHex(hash) ELSE bytesToHex(sigBytes)]

\* the caller's record when signEvent has returned: signEvent reads its
\* fields and assigns none
signEventInput(event, hexOrBytes, aux) == event

\* hexOrBytes is [type |-> "string" | "bytes", value |-> ...]
signEvent(event, hexOrBytes, aux) ==
    LET privateKeyBytes == IF hexOrBytes.type = "string"
                           THEN hexToBytes(hexOrBytes.value)
                           ELSE hexOrBytes.value
        serialized == Serialize(event)
        hash == sha256(serialized)
        sigBytes == schnorrSign(hash, privateKeyBytes, aux)
        sig == bytesToHex(sigBytes)
        id == bytesToHex(hash)
    IN  WithField(WithField(event, "id", id), "sig", sig)

\* NostrKeyPair.signEvent
KeyPairSignEvent(keyPairBytes, event, aux) ==
    signEvent(event, [type |-> "bytes", value |-> keyPairBytes], aux)

Returned(v) == [threw |-> FALSE, value |-> v]
Thrown == [threw |-> TRUE, value |-> FALSE]

\* !event.id: the field is absent or the empty string
Falsy(event, field) == ~Has(event, field) \/ event[field] = <<>>

\* verifyEvent without the comparison of the recomputed id
verifyEventNoIdCheck(event) ==
    IF Falsy(event, "id") \/ Falsy(event, "sig") THEN Returned(FALSE)
    ELSE IF ~hexWellFormed(event.sig) \/ ~hexWellFormed(event.pubkey)
    THEN Thrown
    ELSE Returned(schnorrVerify(hexToBytes(event.sig),
                                sha256(Serialize(event)),
                                hexToBytes(event.pubkey)))

verifyEvent(event) ==
    IF Falsy(event, "id") \/ Falsy(event, "sig") THEN Returned(FALSE)
    ELSE LET serialized == Serialize(event)
             hash == sha256(serialized)
             idCheck == bytesToHex(hash) = event.id
         IN  IF ~idCheck THEN Returned(FALSE)
             ELSE IF ~hexWellFormed(event.sig) \/ ~hexWellFormed(event.pubkey)
             THEN Thrown
             ELSE Returned(schnorrVerify(hexToBytes(event.sig), hash,
                                         hexToBytes(event.pubkey)))

(***************************************************************************)
(* Inputs of the relay pool                                                *)
(***************************************************************************)
RelayA == "wss://relay.a"
RelayB == "ws://relay.b"
NotAUrl == "not-a-url"
NoHost == "ws://"

ValidUrls == {RelayA, RelayB}
AllUrls == {RelayA, RelayB, NotAUrl, NoHost}

\* the characters of each sample url, for the constructor's scheme test
Chars(url) ==
    IF url = RelayA
    THEN <<"w", "s", "s", ":", "/", "/", "r", "e", "l", "a", "y", ".", "a">>
    ELSE IF url = RelayB
    THEN <<"w", "s", ":", "/", "/", "r", "e", "l", "a", "y", ".", "b">>
    ELSE IF url = NoHost
    THEN <<"w", "s", ":", "/", "/">>
    ELSE <<"n", "o", "t", "-", "a", "-", "u", "r", "l">>

StartsWith(chars, prefix) ==
    /\ Len(chars) >= Len(prefix)
    /\ \A i \in 1..Len(prefix) : chars[i] = prefix[i]

\* /^wss?:\/\//.test(url)
SchemeTest(url) ==
    \/ StartsWith(Chars(url), <<"w", "s", ":", "/", "/">>)
    \/ StartsWith(Chars(url), <<"w", "s", "s", ":", "/", "/">>)

\* new WebSocket(url) throws a SyntaxError when the URL parser fails on url;
\* it fails on a ws: or wss: url with an empty host
WebSocketThrows(url) ==
    LET chars == Chars(url)
        scheme == IF StartsWith(chars, <<"w", "s", "s", ":", "/", "/">>)
                  THEN 6 ELSE 5
    IN  SchemeTest(url) /\ Len(chars) = scheme

\* ws.send(message) throws an InvalidStateError on a socket that is still
\* connecting; on a closing or closed socket it discards the message
SendThrows(state) == state = "CONNECTING"

SubIds == {"sub1", "sub2"}

\* relayUrls arguments; includes() makes order and repetition irrelevant, so
\* an argument is given by the set of its elements
UrlArgs == {{}, {RelayA}, {RelayB}, {RelayA, NotAUrl}}

FilterArgs ==
    {<<[kinds |-> <<39701>>, limit |-> <<200>>], [kinds |-> <<0>>, limit |-> <<1>>]>>}

CtorArgs == UNION {[1..n -> AllUrls] : n \in 0..MaxCtorUrls}

Undefined == [undefined |-> TRUE]

Template(pk, c, k, t, ct) ==
    [pubkey |-> PubkeySamples[pk], created_at |-> c, kind |-> k,
     tags |-> TagSamples[t], content |-> ContentSamples[ct]]

Without(event, field) == [f \in (DOMAIN event) \ {field} |-> event[f]]

KeyArg(k) == [type |-> "bytes", value |-> PrivateKeyBytes(k)]

GoodEvent == signEvent(Template(1, 1, 1, 2, 1), KeyArg(1), AuxBytes(1))

\* records an untrusted peer may send
InboundEvents ==
    { GoodEvent,
      [GoodEvent EXCEPT !.content = ContentSamples[2]],
      [GoodEvent EXCEPT !.id = bytesToHex(sha256(Serialize(Template(1, 0, 1, 2, 1))))],
      [GoodEvent EXCEPT !.sig = BadHex],
      signEvent(Template(1, 1, 1, 2, 1), KeyArg(2), AuxBytes(1)),
      Without(GoodEvent, "sig"),
      Without(GoodEvent, "id") }

\* inbound payloads: text that JSON.parse rejects, a JSON value that cannot
\* be destructured as a sequence, and sequences
InboundData ==
    { [parsed |-> FALSE, iterable |-> FALSE, items |-> <<>>],
      [parsed |-> TRUE, iterable |-> FALSE, items |-> <<>>] }
    \cup { [parsed |-> TRUE, iterable |-> TRUE, items |-> <<"EVENT", s, e>>] :
             s \in {"sub1"}, e \in InboundEvents }
    \cup { [parsed |-> TRUE, iterable |-> TRUE, items |-> i] :
             i \in { <<"EVENT">>, <<"NOTICE">>, <<"NOTICE", "slow down">>, <<"EOSE", "sub1">>,
                     <<"CLOSED", "sub2">>, <<"AUTH", "challenge">>,
                     <<"OK", GoodEvent.id, TRUE, "">> } }

(***************************************************************************)
(* NostrRelayPool                                                          *)
(***************************************************************************)
EmptyMap == [s \in {} |-> {}]

CallbackNames ==
    {"onConnected", "onClosed", "onError", "onEvent", "onOk", "onEose",
     "onSubClosed", "onNotice"}

\* the handler every callback field holds after construction: () => { }
DefaultHandler == 0

\* a constructor loop that puts every url into the map
ConstructorLoopAll(relayUrls, connected) ==
    [relays |-> connected \cup {relayUrls[i] : i \in 1..Len(relayUrls)},
     threw |-> FALSE]

RECURSIVE ConstructorLoop(_, _)
\* the constructor's loop over relayUrls, started with the map connected:
\* skip a url that fails the scheme test, connect() the others; connect
\* returns early for a url already in the map and lets the exception of
\* new WebSocket(url) escape
ConstructorLoop(relayUrls, connected) ==
    IF relayUrls = <<>> THEN [relays |-> connected, threw |-> FALSE]
    ELSE LET url == Head(relayUrls)
         IN  IF ~SchemeTest(url) \/ url \in connected
             THEN ConstructorLoop(Tail(relayUrls), connected)
             ELSE IF WebSocketThrows(url)
             THEN [relays |-> connected, threw |-> TRUE]
             ELSE ConstructorLoop(Tail(relayUrls), connected \cup {url})

\* the urls the constructor has connected when it ends
ConnectedBy(relayUrls) == ConstructorLoop(relayUrls, {}).relays

Init ==
    \E relayUrls \in CtorArgs, v \in BOOLEAN :
        /\ verifyEvents = v
        /\ relays = ConnectedBy(relayUrls)
        /\ readyState = [u \in ConnectedBy(relayUrls) |-> "CONNECTING"]
        /\ subscriptions = EmptyMap
        /\ last = [op |-> "constructor", relayUrlList |-> relayUrls]
        /\ sent = {}
        /\ closeCalls = {}
        /\ fired = <<>>
        /\ skipped = {}
        /\ raised = ConstructorLoop(relayUrls, {}).threw
        /\ handlers = [c \in CallbackNames |-> DefaultHandler]
        /\ queue = <<>>
        /\ dispatched = <<>>
        /\ timers = <<>>
    /\ oldPools = <<>>

\* a pool exists once its constructor has returned; when the constructor
\* threw, nobody holds the object and its sockets call the default handlers
Constructed == ~(last.op = "constructor" /\ raised)

IsOpen(url) == readyState[url] = "OPEN"

\* getRelayUrls(): Array.from(this.relays.keys())
getRelayUrls == relays

\* TargetRelays that falls back to the Open relays only
TargetRelaysOpenOnly(relayUrls) ==
    IF relayUrls # {} THEN {u \in relays : u \in relayUrls}
    ELSE {u \in relays : IsOpen(u)}

\* relayUrls.length > 0 ? entries of relays whose url is in relayUrls : relays
TargetRelays(relayUrls) ==
    IF relayUrls # {} THEN {u \in relays : u \in relayUrls} ELSE relays

\* a socket handler that calls no callback of the pool
CallNothing(cb, args) == [cb |-> "none", args |-> args, handler |-> handlers[cb]]

\* this.on...Callback(args): the handler the field holds when it is called
Call(cb, args) == [cb |-> cb, args |-> args, handler |-> handlers[cb]]

\* const [a, b, c] = args: the i-th name, undefined past the end of args
Arg(args, i) == IF i <= Len(args) THEN args[i] ELSE Undefined

\* this.verifyEvent(event) inside handleMessage's try block
PoolVerifyEvent(event) ==
    IF event = Undefined THEN Thrown ELSE verifyEvent(event)

\* handleMessage with the EOSE and CLOSED branches exchanged
handleMessageSwapped(data, url) ==
    IF ~data.parsed \/ ~data.iterable THEN <<>>
    ELSE LET type == Arg(data.items, 1)
             args == Tail(data.items)
         IN  IF type = "EVENT" THEN
                 IF verifyEvents THEN
                     IF PoolVerifyEvent(Arg(args, 2)) = Returned(TRUE)
                     THEN <<Call("onEvent", <<Arg(args, 1), Arg(args, 2), url>>)>>
                     ELSE <<>>
                 ELSE <<Call("onEvent", <<Arg(args, 1), Arg(args, 2), url>>)>>
             ELSE IF type = "NOTICE" THEN
                 <<Call("onNotice", <<Arg(args, 1), url>>)>>
             ELSE IF type = "EOSE" THEN
                 <<Call("onSubClosed", <<Arg(args, 1), url>>)>>
             ELSE IF type = "OK" THEN
                 <<Call("onOk", <<Arg(args, 1), Arg(args, 2), Arg(args, 3), url>>)>>
             ELSE IF type = "CLOSED" THEN
                 <<Call("onEose", <<Arg(args, 1), url>>)>>
             ELSE <<>>

\* handleMessage passing every EVENT through
handleMessageUnchecked(data, url) ==
    IF ~data.parsed \/ ~data.iterable THEN <<>>
    ELSE LET type == Arg(data.items, 1)
             args == Tail(data.items)
         IN  IF type = "EVENT"
             THEN <<Call("onEvent", <<Arg(args, 1), Arg(args, 2), url>>)>>
             ELSE IF type = "NOTICE" THEN
                 <<Call("onNotice", <<Arg(args, 1), url>>)>>
             ELSE IF type = "EOSE" THEN
                 <<Call("onEose", <<Arg(args, 1), url>>)>>
             ELSE IF type = "OK" THEN
                 <<Call("onOk", <<Arg(args, 1), Arg(args, 2), Arg(args, 3), url>>)>>
             ELSE IF type = "CLOSED" THEN
                 <<Call("onSubClosed", <<Arg(args, 1), url>>)>>
             ELSE <<>>

\* the callbacks handleMessage invokes for one payload
handleMessage(data, url) ==
    IF ~data.parsed \/ ~data.iterable THEN <<>>
    ELSE LET type == Arg(data.items, 1)
             args == Tail(data.items)
         IN  IF type = "EVENT" THEN
                 IF verifyEvents THEN
                     IF PoolVerifyEvent(Arg(args, 2)) = Returned(TRUE)
                     THEN <<Call("onEvent", <<Arg(args, 1), Arg(args, 2), url>>)>>
                     ELSE <<>>
                 ELSE <<Call("onEvent", <<Arg(args, 1), Arg(args, 2), url>>)>>
             ELSE IF type = "NOTICE" THEN
                 <<Call("onNotice", <<Arg(args, 1), url>>)>>
             ELSE IF type = "EOSE" THEN
                 <<Call("onEose", <<Arg(args, 1), url>>)>>
             ELSE IF type = "OK" THEN
                 <<Call("onOk", <<Arg(args, 1), Arg(args, 2), Arg(args, 3), url>>)>>
             ELSE IF type = "CLOSED" THEN
                 <<Call("onSubClosed", <<Arg(args, 1), url>>)>>
             ELSE <<>>

\* a handleMessage without its try block
handleMessageRethrows(threw) == threw

\* catch (err) { console.error(...) }: whether an error thrown inside the try
\* block, by JSON.parse, by verifyEvent or by a callback, leaves handleMessage
handleMessageThrows(threw) == FALSE

\* ws.onmessage = msg => this.handleMessage(msg.data, url), run to its end;
\* a handler the application registered may throw, () => { } does not
OnMessage(url, data) ==
    /\ fired' = handleMessage(data, url)
    /\ \E threw \in {FALSE} \cup {\E i \in 1..Len(handleMessage(data, url)) :
                                    handleMessage(data, url)[i].handler # DefaultHandler} :
          /\ last' = [op |-> "message", url |-> url, data |-> data,
                      threw |-> threw]
          /\ raised' = handleMessageThrows(threw)
    /\ sent' = {}
    /\ closeCalls' = {}
    /\ UNCHANGED <<verifyEvents, relays, readyState, subscriptions, skipped,
                   handlers, timers, oldPools>>

\* a message event of the socket of url, handled as soon as it arrives
TransportMessage(url, data) ==
    /\ Constructed
    /\ url \in DOMAIN readyState
    /\ readyState[url] \in {"OPEN", "CLOSING"}
    /\ OnMessage(url, data)
    /\ UNCHANGED <<queue, dispatched>>

\* ws.onopen
TransportOpen(url) ==
    /\ Constructed
    /\ url \in DOMAIN readyState
    /\ readyState[url] = "CONNECTING"
    /\ readyState' = [readyState EXCEPT ![url] = "OPEN"]
    /\ fired' = <<Call("onConnected", <<url>>)>>
    /\ last' = [op |-> "open", url |-> url]
    /\ sent' = {}
    /\ closeCalls' = {}
    /\ raised' = FALSE
    /\ UNCHANGED <<verifyEvents, relays, subscriptions, skipped>>
    /\ UNCHANGED loopVars

\* the map and registry after ws.onclose has run
AfterTransportClose(url) ==
    [relays |-> relays, subscriptions |-> subscriptions]

\* ws.onclose
TransportClose(url) ==
    /\ Constructed
    /\ url \in DOMAIN readyState
    /\ readyState[url] # "CLOSED"
    /\ readyState' = [readyState EXCEPT ![url] = "CLOSED"]
    /\ relays' = AfterTransportClose(url).relays
    /\ subscriptions' = AfterTransportClose(url).subscriptions
    /\ fired' = <<Call("onClosed", <<url>>)>>
    /\ last' = [op |-> "closed", url |-> url]
    /\ sent' = {}
    /\ closeCalls' = {}
    /\ raised' = FALSE
    /\ UNCHANGED <<verifyEvents, skipped>>
    /\ UNCHANGED loopVars

\* a ws.onerror that calls nothing
ErrorCallsNone(url) == <<>>

\* ws.onerror = err => this.onErrorCallback(Error(`WebSocket error`), url);
\* the Error object is the same in every call and is left out of args
ErrorCalls(url) == <<Call("onError", <<url>>)>>

\* ws.onerror
TransportError(url) ==
    /\ Constructed
    /\ url \in DOMAIN readyState
    /\ readyState[url] # "CLOSED"
    /\ fired' = ErrorCalls(url)
    /\ last' = [op |-> "error", url |-> url]
    /\ sent' = {}
    /\ closeCalls' = {}
    /\ raised' = FALSE
    /\ UNCHANGED <<verifyEvents, relays, readyState, subscriptions, skipped>>
    /\ UNCHANGED loopVars

\* publish writing to every targeted socket
PublishSendToAny(relayUrls) == TargetRelays(relayUrls)

\* the sockets publish writes to
PublishSendTo(relayUrls) == {u \in TargetRelays(relayUrls) : IsOpen(u)}

publish(event, relayUrls) ==
    /\ Constructed
    /\ raised' = (\E u \in PublishSendTo(relayUrls) : SendThrows(readyState[u]))
    /\ UNCHANGED loopVars
    /\ sent' = {<<u, <<"EVENT", event>>>> : u \in PublishSendTo(relayUrls)}
    /\ skipped' = skipped \cup
            {u \in DOMAIN readyState :
                /\ relayUrls = {} => u \in relays
                /\ relayUrls # {} => u \in relayUrls
                /\ ~(u \in relays /\ readyState[u] = "OPEN")}
    /\ last' = [op |-> "publish", event |-> event, relayUrls |-> relayUrls]
    /\ fired' = <<>>
    /\ closeCalls' = {}
    /\ UNCHANGED <<verifyEvents, relays, readyState, subscriptions>>

\* subscribe not looking at readyState
SubscribeSendToAny(relayUrls) == TargetRelays(relayUrls)

\* the sockets subscribe writes to and records in the registry
SubscribeSendTo(relayUrls) == {u \in TargetRelays(relayUrls) : IsOpen(u)}

SubscribeRegistry(subId, added) ==
    IF added = {} THEN subscriptions
    ELSE [s \in (DOMAIN subscriptions) \cup {subId} |->
            IF s = subId
            THEN (IF subId \in DOMAIN subscriptions
                  THEN subscriptions[subId] ELSE {}) \cup added
            ELSE subscriptions[s]]

subscribe(subId, filters, relayUrls) ==
    /\ Constructed
    /\ raised' = (\E u \in SubscribeSendTo(relayUrls) : SendThrows(readyState[u]))
    /\ UNCHANGED loopVars
    /\ sent' = {<<u, <<"REQ", subId>> \o filters>> : u \in SubscribeSendTo(relayUrls)}
    /\ subscriptions' = SubscribeRegistry(subId, SubscribeSendTo(relayUrls))
    /\ last' = [op |-> "subscribe", subId |-> subId, filters |-> filters,
                relayUrls |-> relayUrls]
    /\ fired' = <<>>
    /\ closeCalls' = {}
    /\ UNCHANGED <<verifyEvents, relays, readyState, skipped>>

\* the peers of subId that unsubscribe visits
UnsubscribeTargets(subId, relayUrls) ==
    IF subId \notin DOMAIN subscriptions THEN {}
    ELSE IF relayUrls # {}
         THEN {u \in subscriptions[subId] : u \in relayUrls}
         ELSE subscriptions[subId]

\* unsubscribe writing to every visited peer
UnsubscribeSendToAny(subId, relayUrls) ==
    {u \in UnsubscribeTargets(subId, relayUrls) : u \in relays}

UnsubscribeSendTo(subId, relayUrls) ==
    {u \in UnsubscribeTargets(subId, relayUrls) : u \in relays /\ IsOpen(u)}

\* unsubscribe keeping the emptied entry
UnsubscribeRegistryKeep(subId, removed) ==
    IF subId \notin DOMAIN subscriptions THEN subscriptions
    ELSE [subscriptions EXCEPT ![subId] = subscriptions[subId] \ removed]

UnsubscribeRegistry(subId, removed) ==
    IF subId \notin DOMAIN subscriptions THEN subscriptions
    ELSE IF subscriptions[subId] \ removed = {}
         THEN [s \in (DOMAIN subscriptions) \ {subId} |-> subscriptions[s]]
         ELSE [subscriptions EXCEPT ![subId] = subscriptions[subId] \ removed]

unsubscribe(subId, relayUrls) ==
    /\ Constructed
    /\ raised' = (\E u \in UnsubscribeSendTo(subId, relayUrls) :
                        SendThrows(readyState[u]))
    /\ UNCHANGED loopVars
    /\ sent' = {<<u, <<"CLOSE", subId>>>> : u \in UnsubscribeSendTo(subId, relayUrls)}
    /\ subscriptions' =
            UnsubscribeRegistry(subId, UnsubscribeTargets(subId, relayUrls))
    /\ last' = [op |-> "unsubscribe", subId |-> subId, relayUrls |-> relayUrls]
    /\ fired' = <<>>
    /\ closeCalls' = {}
    /\ UNCHANGED <<verifyEvents, relays, readyState, skipped>>

\* a close that drops peers from the map only
CloseRegistryKept(relayUrls, removed) ==
    IF relayUrls = {} THEN EmptyMap ELSE subscriptions

\* the registry after close has dropped the peers in removed
CloseRegistry(relayUrls, removed) ==
    IF relayUrls = {} THEN EmptyMap
    ELSE [s \in {t \in DOMAIN subscriptions : subscriptions[t] \ removed # {}} |->
            subscriptions[s] \ removed]

\* close calling ws.close on every targeted socket
CloseGracefulAny(relayUrls) == TargetRelays(relayUrls)

\* the sockets on which close calls ws.close(1000, "Normal Closure")
CloseGraceful(relayUrls) == {u \in TargetRelays(relayUrls) : IsOpen(u)}

close(relayUrls) ==
    /\ Constructed
    /\ raised' = FALSE
    /\ UNCHANGED loopVars
    /\ closeCalls' = {<<u, 1000>> : u \in CloseGraceful(relayUrls)}
    /\ readyState' = [u \in DOMAIN readyState |->
                        IF u \in CloseGraceful(relayUrls) THEN "CLOSING"
                        ELSE readyState[u]]
    /\ relays' = relays \ TargetRelays(relayUrls)
    /\ subscriptions' = CloseRegistry(relayUrls, TargetRelays(relayUrls))
    /\ last' = [op |-> "close", relayUrls |-> relayUrls]
    /\ sent' = {}
    /\ fired' = <<>>
    /\ UNCHANGED <<verifyEvents, skipped>>

PublishArgs == {GoodEvent}

Next ==
    \/ \E u \in ValidUrls : TransportOpen(u)
    \/ \E u \in ValidUrls : TransportClose(u)
    \/ \E u \in ValidUrls : TransportError(u)
    \/ \E u \in ValidUrls, d \in InboundData : TransportMessage(u, d)
    \/ \E e \in PublishArgs, r \in UrlArgs : publish(e, r)
    \/ \E s \in SubIds, f \in FilterArgs, r \in UrlArgs : subscribe(s, f, r)
    \/ \E s \in SubIds, r \in UrlArgs : unsubscribe(s, r)
    \/ \E r \in UrlArgs : close(r)

Spec == Init /\ [][Next]_vars

(***************************************************************************)
(* Keepalive (enablePing)                                                  *)
(***************************************************************************)
PingInit ==
    Init /\ last.op = "constructor" /\ last.relayUrlList = <<RelayA>>
         /\ verifyEvents

\* setInterval(callback, 30000): one more interval, ticking until cleared
enablePing(relayUrl) ==
    /\ Constructed
    /\ Len(timers) < MaxTimers
    /\ timers' = Append(timers, [url |-> relayUrl, active |-> TRUE])
    /\ last' = [op |-> "enablePing", relayUrl |-> relayUrl]
    /\ fired' = <<>>
    /\ sent' = {}
    /\ closeCalls' = {}
    /\ raised' = FALSE
    /\ UNCHANGED <<verifyEvents, relays, readyState, subscriptions, skipped,
                   handlers, queue, dispatched, oldPools>>

\* a tick that writes to every socket still in the map
TickSendsInMap(relayUrl) == relayUrl \in relays

\* const ws = this.relays.get(relayUrl); ws && ws.readyState === WebSocket.OPEN
TickSends(relayUrl) == relayUrl \in relays /\ readyState[relayUrl] = "OPEN"

\* an else branch without clearInterval
ClearIntervalNone(id) == timers

\* clearInterval(intervalId)
ClearInterval(id) == [timers EXCEPT ![id].active = FALSE]

\* the callback of interval id runs
Tick(id) ==
    /\ Constructed
    /\ id \in 1..Len(timers)
    /\ timers[id].active
    /\ IF TickSends(timers[id].url)
       THEN /\ sent' = {<<timers[id].url, <<"PING">>>>}
            /\ timers' = timers
       ELSE /\ sent' = {}
            /\ timers' = ClearInterval(id)
    /\ last' = [op |-> "tick", id |-> id, url |-> timers[id].url]
    /\ fired' = <<>>
    /\ closeCalls' = {}
    /\ raised' = FALSE
    /\ UNCHANGED <<verifyEvents, relays, readyState, subscriptions, skipped,
                   handlers, queue, dispatched, oldPools>>

PingNext ==
    \/ \E u \in ValidUrls : TransportOpen(u)
    \/ \E u \in ValidUrls : TransportClose(u)
    \/ \E r \in UrlArgs : close(r)
    \/ \E u \in {RelayA, NotAUrl} : enablePing(u)
    \/ \E id \in 1..MaxTimers : Tick(id)

PingSpec == PingInit /\ [][PingNext]_vars

\* an interval that has not been cleared keeps firing
PingFairSpec == PingSpec /\ \A id \in 1..MaxTimers : WF_vars(Tick(id))

\* a socket on which ws.close was called emits its close event: the closing
\* handshake ends or times out
CloseFairSpec ==
    PingSpec /\ \A u \in ValidUrls :
                    WF_vars(TransportClose(u) /\ readyState[u] = "CLOSING")

(***************************************************************************)
(* Callback registration                                                   *)
(***************************************************************************)
\* one payload per recognized tag
HandlerData ==
    {d \in InboundData :
        d.items \in {<<"EVENT", "sub1", GoodEvent>>, <<"NOTICE", "slow down">>,
                     <<"EOSE", "sub1">>, <<"CLOSED", "sub2">>,
                     <<"OK", GoodEvent.id, TRUE, "">>}}

HandlerInit ==
    Init /\ last.op = "constructor" /\ last.relayUrlList = <<RelayA>>
         /\ ~verifyEvents

\* the handlers the application has created so far are 1..NewHandler - 1
NewHandler ==
    1 + (CHOOSE h \in 0..MaxHandlers :
            /\ \E c \in CallbackNames : handlers[c] = h
            /\ \A c \in CallbackNames : handlers[c] <= h)

\* a registration that keeps the handler registered first
RegisterKeepFirst(cb, callback) ==
    IF handlers[cb] = DefaultHandler THEN [handlers EXCEPT ![cb] = callback]
    ELSE handlers

\* this.on...Callback = callback
Register(cb, callback) == [handlers EXCEPT ![cb] = callback]

\* onConnected, onClosed, onError, onEvent, onOk, onEose, onSubClosed,
\* onNotice called with a new function
RegisterCall(cb) ==
    /\ Constructed
    /\ NewHandler <= MaxHandlers
    /\ handlers' = Register(cb, NewHandler)
    /\ last' = [op |-> "register", cb |-> cb, callback |-> NewHandler]
    /\ fired' = <<>>
    /\ sent' = {}
    /\ closeCalls' = {}
    /\ raised' = FALSE
    /\ UNCHANGED <<verifyEvents, relays, readyState, subscriptions, skipped,
                   queue, dispatched, timers, oldPools>>

HandlerNext ==
    \/ \E cb \in CallbackNames : RegisterCall(cb)
    \/ \E u \in ValidUrls : TransportOpen(u)
    \/ \E u \in ValidUrls : TransportClose(u)
    \/ \E u \in ValidUrls : TransportError(u)
    \/ \E u \in ValidUrls, d \in HandlerData : TransportMessage(u, d)

HandlerSpec == HandlerInit /\ [][HandlerNext]_vars

(***************************************************************************)
(* Message events on the event loop                                        *)
(***************************************************************************)
\* the payloads relays send in this part: one that is dropped and two that
\* reach a callback
OrderData ==
    {d \in InboundData :
        \/ ~d.parsed
        \/ d.items \in {<<"NOTICE", "slow down">>, <<"EOSE", "sub1">>}}

OrderInit ==
    Init /\ last.op = "constructor" /\ last.relayUrlList = <<RelayA, RelayB>>
         /\ verifyEvents

\* the message events delivered so far
Arrivals == Len(queue) + Len(dispatched)

\* the transport delivers a message of the socket of url: a message event is
\* queued for ws.onmessage
Arrive(url, data) ==
    /\ Constructed
    /\ url \in DOMAIN readyState
    /\ readyState[url] \in {"OPEN", "CLOSING"}
    /\ Arrivals < MaxArrivals
    /\ queue' = Append(queue, [url |-> url, data |-> data, n |-> Arrivals + 1])
    /\ last' = [op |-> "arrive", url |-> url, data |-> data]
    /\ fired' = <<>>
    /\ sent' = {}
    /\ closeCalls' = {}
    /\ raised' = FALSE
    /\ UNCHANGED <<verifyEvents, relays, readyState, subscriptions, skipped,
                   handlers, dispatched, timers, oldPools>>

\* an event loop that runs the newest queued event first
NextTaskNewest(tasks) == Len(tasks)

\* the event loop runs the oldest queued event; handleMessage has no await,
\* so its callbacks have run when the next event is taken
NextTask(tasks) == 1

\* the event loop runs ws.onmessage for one queued message event
RunTask ==
    /\ queue # <<>>
    /\ LET i == NextTask(queue)
           task == queue[i]
       IN  /\ OnMessage(task.url, task.data)
           /\ queue' = SubSeq(queue, 1, i - 1) \o SubSeq(queue, i + 1, Len(queue))
           /\ dispatched' = Append(dispatched,
                                   [url |-> task.url, n |-> task.n,
                                    calls |-> handleMessage(task.data, task.url)])

OrderNext ==
    \/ \E u \in ValidUrls : TransportOpen(u)
    \/ \E u \in ValidUrls, d \in OrderData : Arrive(u, d)
    \/ RunTask

OrderSpec == OrderInit /\ [][OrderNext]_vars

(***************************************************************************)
(* Codec operations applied to sample inputs                               *)
(***************************************************************************)
UnsignedSamples ==
    { Template(pk, c, k, t, ct) :
        pk \in 1..Len(PubkeySamples), c \in CreatedAtSamples, k \in KindSamples,
        t \in 1..Len(TagSamples), ct \in 1..Len(ContentSamples) }

\* records that already carry an id and a sig, both of another record
StaleSamples ==
    { WithField(WithField(Template(pk, c, k, 2, 1), "id",
                          bytesToHex(sha256(Serialize(Template(2, 0, 0, 1, 2))))),
                "sig", GoodEvent.sig) :
        pk \in 1..Len(PubkeySamples), c \in CreatedAtSamples, k \in KindSamples }

KeyForms == {"bytes", "string", "keypair"}

KeyInput(k, form) ==
    IF form = "string"
    THEN [type |-> "string", value |-> bytesToHex(PrivateKeyBytes(k))]
    ELSE [type |-> "bytes", value |-> PrivateKeyBytes(k)]

SignResult(event, k, form, a) ==
    IF form = "keypair"
    THEN KeyPairSignEvent(PrivateKeyBytes(k), event, AuxBytes(a))
    ELSE signEvent(event, KeyInput(k, form), AuxBytes(a))

\* the inputs of one run of the codec: a record to sign with a key, or a
\* record received from elsewhere
CodecInit ==
    /\ verifyEvents = TRUE
    /\ relays = {}
    /\ readyState = [u \in {} |-> "CONNECTING"]
    /\ subscriptions = EmptyMap
    /\ \/ \E e \in UnsignedSamples \cup StaleSamples, k \in KeyIds, f \in KeyForms, a \in 1..MaxAux :
             last = [op |-> "unsigned", event |-> e, key |-> k, form |-> f,
                     aux |-> a]
       \/ \E e \in InboundEvents : last = [op |-> "received", event |-> e]
    /\ sent = {}
    /\ closeCalls = {}
    /\ fired = <<>>
    /\ skipped = {}
    /\ raised = FALSE
    /\ handlers = [c \in CallbackNames |-> DefaultHandler]
    /\ queue = <<>>
    /\ dispatched = <<>>
    /\ timers = <<>>
    /\ oldPools = <<>>

\* a caller signs a record
SignEventCall ==
    /\ last.op = "unsigned"
    /\ last' = [op |-> "signEvent", event |-> last.event, key |-> last.key,
                form |-> last.form, aux |-> last.aux,
                after |-> signEventInput(last.event, KeyInput(last.key, last.form),
                                         AuxBytes(last.aux)),
                result |-> SignResult(last.event, last.key, last.form, last.aux)]
    /\ UNCHANGED poolVars

SignedFields == {"pubkey", "created_at", "kind", "tags", "content"}

\* the values somebody holding a signed record can put into one of its fields
FieldValues(field) ==
    IF field = "pubkey" THEN {PubkeySamples[i] : i \in 1..Len(PubkeySamples)}
    ELSE IF field = "created_at" THEN CreatedAtSamples
    ELSE IF field = "kind" THEN KindSamples
    ELSE IF field = "tags" THEN {TagSamples[i] : i \in 1..Len(TagSamples)}
    ELSE {ContentSamples[i] : i \in 1..Len(ContentSamples)}

\* somebody changes one field of a signed record and keeps its id and sig
TamperCall(field, value) ==
    /\ last.op = "signEvent"
    /\ value # last.result[field]
    /\ last' = [op |-> "tampered", event |-> [last.result EXCEPT ![field] = value],
                field |-> field]
    /\ UNCHANGED poolVars

\* a caller verifies the changed record
VerifyTamperedCall ==
    /\ last.op = "tampered"
    /\ last' = [op |-> "verifyEvent", event |-> last.event, signed |-> FALSE,
                key |-> 0, tampered |-> last.field,
                result |-> verifyEvent(last.event)]
    /\ UNCHANGED poolVars

\* a caller verifies the record it has just signed
VerifySignedCall ==
    /\ last.op = "signEvent"
    /\ last' = [op |-> "verifyEvent", event |-> last.result, signed |-> TRUE,
                key |-> last.key, tampered |-> "none",
                result |-> verifyEvent(last.result)]
    /\ UNCHANGED poolVars

\* a caller verifies a record received from elsewhere
VerifyEventCall ==
    /\ last.op = "received"
    /\ last' = [op |-> "verifyEvent", event |-> last.event, signed |-> FALSE,
                key |-> 0, tampered |-> "none",
                result |-> verifyEvent(last.event)]
    /\ UNCHANGED poolVars

\* a caller holding the public-key handle of the sample key p verifies the
\* record just signed: NostrPublicKey.verifyEvent(event) returns
\* Nostr.verifyEvent(event) and does not read this.bytes
PublicKeyVerifyEventCall ==
    /\ last.op = "signEvent"
    /\ \E p \in KeyIds :
          last' = [op |-> "NostrPublicKey.verifyEvent", handle |-> p,
                   event |-> last.result, key |-> last.key,
                   result |-> verifyEvent(last.result)]
    /\ UNCHANGED poolVars

CodecNext ==
    \/ SignEventCall
    \/ VerifySignedCall
    \/ VerifyEventCall
    \/ \E f \in SignedFields : \E v \in FieldValues(f) : TamperCall(f, v)
    \/ VerifyTamperedCall
    \/ PublicKeyVerifyEventCall

CodecSpec == CodecInit /\ [][CodecNext]_vars

(***************************************************************************)
(* bech32 (@scure/base): strings are sequences of one-character strings.   *)
(* The checksum is a stand-in for the BCH code: six 5-bit words computed   *)
(* from the prefix and the data words, different for "nsec" and "npub".    *)
(***************************************************************************)
Bech32Charset ==
    <<"q", "p", "z", "r", "y", "9", "x", "8", "g", "f", "2", "t", "v", "d", "w",
      "0", "s", "3", "j", "n", "5", "4", "k", "h", "c", "e", "6", "m", "u", "a",
      "7", "l">>

\* the 5-bit word a character stands for, -1 for a character outside the charset
WordOf(c) ==
    IF \E i \in 1..32 : Bech32Charset[i] = c
    THEN (CHOOSE i \in 1..32 : Bech32Charset[i] = c) - 1
    ELSE -1

\* the value of the run of width bits that starts after bit start of a
\* sequence of groups of from bits, most significant bit first; bits past
\* the end count as 0
Regroup(groups, from, start, width) ==
    LET pow2 == <<1, 2, 4, 8, 16, 32, 64, 128>>
        bit(i) == IF i <= from * Len(groups)
                  THEN (groups[((i - 1) \div from) + 1]
                            \div pow2[from - ((i - 1) % from)]) % 2
                  ELSE 0
        RECURSIVE value(_)
        value(t) == IF t = 0 THEN 0 ELSE 2 * value(t - 1) + bit(start + t)
    IN  value(width)

\* bech32.toWords: 8-bit bytes to 5-bit words, the last word padded with 0
toWords(bytes) ==
    [j \in 1..((8 * Len(bytes) + 4) \div 5) |-> Regroup(bytes, 8, 5 * (j - 1), 5)]

\* bech32.fromWords throws on five or more left-over bits and on left-over
\* bits that are not 0
fromWordsOk(words) ==
    LET total == 5 * Len(words)
        used == 8 * (total \div 8)
    IN  total - used < 5 /\ Regroup(words, 5, used, total - used) = 0

\* a regrouping that changes every byte
fromWordsOffByOne(words) ==
    [j \in 1..((5 * Len(words)) \div 8) |->
        (Regroup(words, 5, 8 * (j - 1), 8) + 1) % 256]

fromWords(words) ==
    [j \in 1..((5 * Len(words)) \div 8) |-> Regroup(words, 5, 8 * (j - 1), 8)]

bech32Checksum(prefix, words) ==
    LET RECURSIVE sum(_, _)
        sum(seq, i) ==
            IF i > Len(seq) THEN 0 ELSE (i * seq[i] + sum(seq, i + 1)) % 1024
        p == sum([i \in 1..Len(prefix) |-> WordOf(prefix[i]) + 1], 1)
        w == sum(words, 1)
    IN  [i \in 1..6 |-> (i * w + (i + 1) * p + i) % 32]

\* bech32.encode throws on an empty prefix and on more than 90 characters
bech32EncodeOk(prefix, words) ==
    Len(prefix) > 0 /\ Len(prefix) + 7 + Len(words) <= 90

\* bech32.encode(prefix, words)
bech32Encode(prefix, words) ==
    prefix \o <<"1">>
        \o [i \in 1..Len(words) |-> Bech32Charset[words[i] + 1]]
        \o [i \in 1..6 |-> Bech32Charset[bech32Checksum(prefix, words)[i] + 1]]

\* bech32.decode(str): { prefix, words }; ok is FALSE where it throws, that is
\* unless the string has 8 to 90 characters, a prefix before the last "1", at
\* least six characters of the charset after it and a matching checksum
bech32Decode(str) ==
    LET sep == IF \E i \in 1..Len(str) : str[i] = "1"
               THEN CHOOSE i \in 1..Len(str) :
                       str[i] = "1" /\ \A j \in (i + 1)..Len(str) : str[j] # "1"
               ELSE 0
        prefix == SubSeq(str, 1, sep - 1)
        data == [i \in 1..(Len(str) - sep) |-> WordOf(str[sep + i])]
        n == Len(data)
    IN  [ok |-> /\ Len(str) >= 8
                /\ Len(str) <= 90
                /\ sep > 1
                /\ n >= 6
                /\ \A i \in 1..n : data[i] >= 0
                /\ SubSeq(data, n - 5, n) =
                      bech32Checksum(prefix, SubSeq(data, 1, n - 6)),
         prefix |-> prefix,
         words |-> SubSeq(data, 1, n - 6)]

(***************************************************************************)
(* Key handles: NostrKeyPair, NostrPublicKey and the Nostr key functions.  *)
(* An argument is [type |-> "string" | "bytes", value |-> ...]; a call     *)
(* returns Returned(value) or Throw(message).                              *)
(***************************************************************************)
Throw(message) == [threw |-> TRUE, error |-> message]

\* try { ... } catch (_error) { throw new Error(message) }
Caught(result, message) == IF result.threw THEN Throw(message) ELSE result

Nsec == <<"n", "s", "e", "c">>
Npub == <<"n", "p", "u", "b">>

StringArg(value) == [type |-> "string", value |-> value]
BytesArg(value) == [type |-> "bytes", value |-> value]

\* schnorr.getPublicKey throws unless the secret key is a 32-byte scalar in
\* 1..n-1: the zero key and the all-ones key stand for the scalars it rejects
schnorrSecretKeyOk(privateKeyBytes) ==
    /\ Len(privateKeyBytes) = KeyLen
    /\ \E i \in 1..KeyLen : privateKeyBytes[i] # 0
    /\ \E i \in 1..KeyLen : privateKeyBytes[i] # 255

\* new NostrPublicKey(bytesOrHex): no check of the length
NostrPublicKey(bytesOrHex) ==
    IF bytesOrHex.type = "string" /\ ~hexWellFormed(bytesOrHex.value)
    THEN Throw("hexToBytes")
    ELSE LET bytes == IF bytesOrHex.type = "string"
                      THEN hexToBytes(bytesOrHex.value) ELSE bytesOrHex.value
         IN  IF ~bech32EncodeOk(Npub, toWords(bytes))
             THEN Throw("bech32.encode")
             ELSE Returned([bytes |-> bytes,
                            hex |-> bytesToHex(bytes),
                            npub |-> bech32Encode(Npub, toWords(bytes))])

\* NostrPublicKey.fromPrivateKey(privateKey), given privateKey.bytes
fromPrivateKey(privateKeyBytes) ==
    IF ~schnorrSecretKeyOk(privateKeyBytes)
    THEN Throw("schnorr.getPublicKey")
    ELSE NostrPublicKey(BytesArg(schnorrGetPublicKey(privateKeyBytes)))

\* NostrPublicKey.fromHex(hex)
NostrPublicKeyFromHex(hex) ==
    IF ~hexWellFormed(hex)
    THEN Throw("hexToBytes")
    ELSE NostrPublicKey(BytesArg(hexToBytes(hex)))

\* NostrPublicKey.fromNpub(npub): no try block, every cause keeps its error
NostrPublicKeyFromNpub(npub) ==
    IF ~bech32Decode(npub).ok THEN Throw("bech32.decode")
    ELSE IF bech32Decode(npub).prefix # Npub THEN Throw("Invalid npub prefix")
    ELSE IF ~fromWordsOk(bech32Decode(npub).words) THEN Throw("bech32.fromWords")
    ELSE IF Len(fromWords(bech32Decode(npub).words)) # KeyLen
         THEN Throw("Invalid npub length")
    ELSE NostrPublicKey(BytesArg(fromWords(bech32Decode(npub).words)))

\* a constructor that derives the public key of a byte array of any length
NostrKeyPairAnyLength(bytesOrHex) ==
    IF bytesOrHex.type = "string" /\ ~hexWellFormed(bytesOrHex.value)
    THEN Throw("Invalid private key hex")
    ELSE LET bytes == IF bytesOrHex.type = "string"
                      THEN hexToBytes(bytesOrHex.value) ELSE bytesOrHex.value
         IN  Returned([bytes |-> bytes,
                       hex |-> bytesToHex(bytes),
                       nsec |-> bech32Encode(Nsec, toWords(bytes)),
                       publicKey |->
                           NostrPublicKey(BytesArg(schnorrGetPublicKey(bytes))).value])

\* new NostrKeyPair(bytesOrHex): the catch block replaces every error
NostrKeyPair(bytesOrHex) ==
    Caught(
        IF bytesOrHex.type = "string" /\ ~hexWellFormed(bytesOrHex.value)
        THEN Throw("hexToBytes")
        ELSE LET bytes == IF bytesOrHex.type = "string"
                          THEN hexToBytes(bytesOrHex.value) ELSE bytesOrHex.value
             IN  IF Len(bytes) # KeyLen THEN Throw("Invalid private key length")
                 ELSE IF ~bech32EncodeOk(Nsec, toWords(bytes))
                      THEN Throw("bech32.encode")
                 ELSE IF fromPrivateKey(bytes).threw THEN fromPrivateKey(bytes)
                 ELSE Returned([bytes |-> bytes,
                                hex |-> bytesToHex(bytes),
                                nsec |-> bech32Encode(Nsec, toWords(bytes)),
                                publicKey |-> fromPrivateKey(bytes).value]),
        "Invalid private key hex")

\* NostrKeyPair.fromHex(hex)
NostrKeyPairFromHex(hex) == NostrKeyPair(StringArg(hex))

\* NostrKeyPair.fromBytes(bytes)
NostrKeyPairFromBytes(bytes) == NostrKeyPair(StringArg(bytesToHex(bytes)))

\* a decoder that accepts every prefix
ToHexTryAnyPrefix(str, prefix, prefixError, lengthError) ==
    IF ~bech32Decode(str).ok THEN Throw("bech32.decode")
    ELSE IF ~fromWordsOk(bech32Decode(str).words) THEN Throw("bech32.fromWords")
    ELSE IF Len(fromWords(bech32Decode(str).words)) # KeyLen THEN Throw(lengthError)
    ELSE Returned(bytesToHex(fromWords(bech32Decode(str).words)))

\* the statements NostrKeyPair.fromNsec, Nostr.nsecToHex and Nostr.npubToHex
\* share in their try blocks: the hex of the payload, or the first error
ToHexTry(str, prefix, prefixError, lengthError) ==
    IF ~bech32Decode(str).ok THEN Throw("bech32.decode")
    ELSE IF bech32Decode(str).prefix # prefix THEN Throw(prefixError)
    ELSE IF ~fromWordsOk(bech32Decode(str).words) THEN Throw("bech32.fromWords")
    ELSE IF Len(fromWords(bech32Decode(str).words)) # KeyLen THEN Throw(lengthError)
    ELSE Returned(bytesToHex(fromWords(bech32Decode(str).words)))

\* NostrKeyPair.fromNsec(nsec)
NostrKeyPairFromNsec(nsec) ==
    Caught(
        LET hex == ToHexTry(nsec, Nsec, "Invalid nsec prefix", "Invalid nsec length")
        IN  IF hex.threw THEN hex ELSE NostrKeyPair(StringArg(hex.value)),
        "Invalid nsec format")

\* Nostr.recoverKey(privateKeyHex)
recoverKey(privateKeyHex) ==
    Caught(
        IF ~hexWellFormed(privateKeyHex) THEN Throw("hexToBytes")
        ELSE IF Len(hexToBytes(privateKeyHex)) # KeyLen
             THEN Throw("Invalid private key length")
        ELSE IF ~schnorrSecretKeyOk(hexToBytes(privateKeyHex))
             THEN Throw("schnorr.getPublicKey")
        ELSE Returned([privateKey |-> privateKeyHex,
                       publicKey |->
                           bytesToHex(schnorrGetPublicKey(hexToBytes(privateKeyHex)))]),
        "Invalid private key hex")

\* Nostr.nsecToHex(nsec)
nsecToHex(nsec) ==
    Caught(ToHexTry(nsec, Nsec, "Invalid nsec prefix", "Invalid nsec length"),
           "Invalid nsec format")

\* Nostr.npubToHex(npub)
npubToHex(npub) ==
    Caught(ToHexTry(npub, Npub, "Invalid npub prefix", "Invalid npub length"),
           "Invalid npub format")

\* the try block of Nostr.hexToNsec and of Nostr.hexToNpub
FromHexTry(hex, prefix, lengthError) ==
    IF ~hexWellFormed(hex) THEN Throw("hexToBytes")
    ELSE IF Len(hexToBytes(hex)) # KeyLen THEN Throw(lengthError)
    ELSE IF ~bech32EncodeOk(prefix, toWords(hexToBytes(hex))) THEN Throw("bech32.encode")
    ELSE Returned(bech32Encode(prefix, toWords(hexToBytes(hex))))

\* Nostr.hexToNsec(hex)
hexToNsec(hex) ==
    Caught(FromHexTry(hex, Nsec, "Invalid private key length"), "Invalid hex format")

\* Nostr.hexToNpub(hex)
hexToNpub(hex) ==
    Caught(FromHexTry(hex, Npub, "Invalid public key length"), "Invalid hex format")

(***************************************************************************)
(* Key specification: a caller holds one input, applies one key function   *)
(* to it, and then applies a second one to an encoding the first returned. *)
(***************************************************************************)
\* the sample keys, the zero key, a key of 31 bytes and a key of 33 bytes
KeyByteSamples ==
    {PrivateKeyBytes(k) : k \in KeyIds}
        \cup {[i \in 1..n |-> b] : <<n, b>> \in {<<32, 0>>, <<31, 1>>, <<33, 1>>}}

\* the hex and both checksummed strings of each sample; hex in upper case,
\* hex that does not decode; a checksummed string with its last character
\* replaced, and one with a padding bit set
KeyStringSamples ==
    LET words == toWords(PrivateKeyBytes(1))
    IN  {bytesToHex(b) : b \in KeyByteSamples}
            \cup {[i \in 1..64 |-> "A"], BadHex, <<"0", "1", "0">>}
            \cup {bech32Encode(prefix, toWords(b)) :
                     prefix \in {Nsec, Npub}, b \in KeyByteSamples}
            \cup {[bech32Encode(prefix, words) EXCEPT
                      ![Len(words) + 11] = IF @ = "q" THEN "p" ELSE "q"] :
                     prefix \in {Nsec, Npub}}
            \cup {bech32Encode(prefix, [words EXCEPT ![Len(words)] = @ + 1]) :
                     prefix \in {Nsec, Npub}}

KeyInit ==
    /\ verifyEvents = TRUE
    /\ relays = {}
    /\ readyState = [u \in {} |-> "CONNECTING"]
    /\ subscriptions = EmptyMap
    /\ \/ \E str \in KeyStringSamples :
             last = [op |-> "input", depth |-> 0, arg |-> StringArg(str)]
       \/ \E bytes \in KeyByteSamples :
             last = [op |-> "input", depth |-> 0, arg |-> BytesArg(bytes)]
    /\ sent = {}
    /\ closeCalls = {}
    /\ fired = <<>>
    /\ skipped = {}
    /\ raised = FALSE
    /\ handlers = [c \in CallbackNames |-> DefaultHandler]
    /\ queue = <<>>
    /\ dispatched = <<>>
    /\ timers = <<>>
    /\ oldPools = <<>>

KeyPairOps ==
    {"NostrKeyPair", "NostrKeyPair.fromHex", "NostrKeyPair.fromBytes",
     "NostrKeyPair.fromNsec"}

PublicKeyOps ==
    {"NostrPublicKey", "NostrPublicKey.fromHex", "NostrPublicKey.fromNpub"}

\* the strings the caller can pass next: the input, or what the first call
\* returned (a string, or the string fields of a handle)
KeyStrings ==
    IF last.op = "input"
    THEN IF last.arg.type = "string" THEN {last.arg.value} ELSE {}
    ELSE IF last.depth # 1 \/ last.result.threw THEN {}
    ELSE IF last.op \in KeyPairOps
         THEN {last.result.value.hex, last.result.value.nsec,
               last.result.value.publicKey.hex, last.result.value.publicKey.npub}
    ELSE IF last.op \in PublicKeyOps
         THEN {last.result.value.hex, last.result.value.npub}
    ELSE IF last.op = "Nostr.recoverKey"
         THEN {last.result.value.privateKey, last.result.value.publicKey}
    ELSE {last.result.value}

\* the byte arrays the caller can pass next
KeyBytes ==
    IF last.op = "input"
    THEN IF last.arg.type = "bytes" THEN {last.arg.value} ELSE {}
    ELSE IF last.depth # 1 \/ last.result.threw THEN {}
    ELSE IF last.op \in KeyPairOps
         THEN {last.result.value.bytes, last.result.value.publicKey.bytes}
    ELSE IF last.op \in PublicKeyOps THEN {last.result.value.bytes}
    ELSE {}

\* the call is recorded with the call before it
KeyCalled(op, arg, result) ==
    /\ last' = [op |-> op, depth |-> last.depth + 1, arg |-> arg,
                origin |-> IF last.op = "input"
                           THEN [op |-> "input"]
                           ELSE [op |-> last.op, arg |-> last.arg,
                                 result |-> last.result],
                result |-> result]
    /\ UNCHANGED poolVars

NewKeyPairCall ==
    \/ \E str \in KeyStrings :
          KeyCalled("NostrKeyPair", StringArg(str), NostrKeyPair(StringArg(str)))
    \/ \E bytes \in KeyBytes :
          KeyCalled("NostrKeyPair", BytesArg(bytes), NostrKeyPair(BytesArg(bytes)))

KeyPairFromHexCall ==
    \E str \in KeyStrings :
        KeyCalled("NostrKeyPair.fromHex", StringArg(str), NostrKeyPairFromHex(str))

KeyPairFromBytesCall ==
    \E bytes \in KeyBytes :
        KeyCalled("NostrKeyPair.fromBytes", BytesArg(bytes),
                  NostrKeyPairFromBytes(bytes))

KeyPairFromNsecCall ==
    \E str \in KeyStrings :
        KeyCalled("NostrKeyPair.fromNsec", StringArg(str), NostrKeyPairFromNsec(str))

NewPublicKeyCall ==
    \/ \E str \in KeyStrings :
          KeyCalled("NostrPublicKey", StringArg(str), NostrPublicKey(StringArg(str)))
    \/ \E bytes \in KeyBytes :
          KeyCalled("NostrPublicKey", BytesArg(bytes), NostrPublicKey(BytesArg(bytes)))

PublicKeyFromHexCall ==
    \E str \in KeyStrings :
        KeyCalled("NostrPublicKey.fromHex", StringArg(str), NostrPublicKeyFromHex(str))

PublicKeyFromNpubCall ==
    \E str \in KeyStrings :
        KeyCalled("NostrPublicKey.fromNpub", StringArg(str),
                  NostrPublicKeyFromNpub(str))

RecoverKeyCall ==
    \E str \in KeyStrings :
        KeyCalled("Nostr.recoverKey", StringArg(str), recoverKey(str))

NsecToHexCall ==
    \E str \in KeyStrings :
        KeyCalled("Nostr.nsecToHex", StringArg(str), nsecToHex(str))

HexToNsecCall ==
    \E str \in KeyStrings :
        KeyCalled("Nostr.hexToNsec", StringArg(str), hexToNsec(str))

NpubToHexCall ==
    \E str \in KeyStrings :
        KeyCalled("Nostr.npubToHex", StringArg(str), npubToHex(str))

HexToNpubCall ==
    \E str \in KeyStrings :
        KeyCalled("Nostr.hexToNpub", StringArg(str), hexToNpub(str))

\* the caller writes one element of the Uint8Array it passed to a
\* constructor: this.bytes = bytesOrHex keeps the caller's array, so the
\* handle's bytes are that array, while hex, nsec / npub and publicKey were
\* computed when the handle was built
CallerWrite ==
    /\ last.op \in {"NostrKeyPair", "NostrPublicKey"}
    /\ last.arg.type = "bytes"
    /\ ~last.result.threw
    /\ \E i \in {1, Len(last.arg.value)}, b \in {0, 7} :
          last' = [op |-> "write", depth |-> 2,
                   arg |-> BytesArg([last.arg.value EXCEPT ![i] = b]),
                   origin |-> [op |-> last.op, arg |-> last.arg,
                               result |-> last.result],
                   result |-> [last.result EXCEPT !.value.bytes[i] = b]]
    /\ UNCHANGED poolVars

KeyNext ==
    \/ NewKeyPairCall
    \/ KeyPairFromHexCall
    \/ KeyPairFromBytesCall
    \/ KeyPairFromNsecCall
    \/ NewPublicKeyCall
    \/ PublicKeyFromHexCall
    \/ PublicKeyFromNpubCall
    \/ RecoverKeyCall
    \/ NsecToHexCall
    \/ HexToNsecCall
    \/ NpubToHexCall
    \/ HexToNpubCall
    \/ CallerWrite

KeySpec == KeyInit /\ [][KeyNext]_vars

(***************************************************************************)
(* The page's relay session (+page.svelte): relayPool is the pool of the   *)
(* variables relays, readyState and subscriptions; the pools connectRelays *)
(* has closed are in oldPools, each with the sockets it created. Every     *)
(* pool carries the page's handlers, which call methods of relayPool, the  *)
(* pool current when they run. The keepalive intervals are set but their   *)
(* ticks are left out here.                                                *)
(***************************************************************************)
\* the page after onMount: connectRelays has built the first pool and
\* registered onConnected, onEvent, onEose, onClosed and onError on it
PageInit ==
    /\ verifyEvents = TRUE
    /\ relays = ConnectedBy(<<RelayA, RelayB>>)
    /\ readyState = [u \in ConnectedBy(<<RelayA, RelayB>>) |-> "CONNECTING"]
    /\ subscriptions = EmptyMap
    /\ last = [op |-> "connectRelays"]
    /\ sent = {}
    /\ closeCalls = {}
    /\ fired = <<>>
    /\ skipped = {}
    /\ raised = FALSE
    /\ handlers = [c \in CallbackNames |->
                      IF c \in {"onOk", "onSubClosed", "onNotice"}
                      THEN DefaultHandler ELSE 1]
    /\ queue = <<>>
    /\ dispatched = <<>>
    /\ timers = <<>>
    /\ oldPools = <<>>

\* connectRelays() called again: relayPool?.close(), then a new pool with
\* the same handlers
connectRelays ==
    /\ Len(oldPools) < MaxReconnects
    /\ closeCalls' = {<<u, 1000>> : u \in CloseGraceful({})}
    /\ oldPools' =
          Append(oldPools,
                 [readyState |-> [u \in DOMAIN readyState |->
                                    IF u \in CloseGraceful({}) THEN "CLOSING"
                                    ELSE readyState[u]],
                  relays |-> relays \ TargetRelays({}),
                  subscriptions |-> CloseRegistry({}, TargetRelays({}))])
    /\ relays' = ConnectedBy(<<RelayA, RelayB>>)
    /\ readyState' = [u \in ConnectedBy(<<RelayA, RelayB>>) |-> "CONNECTING"]
    /\ subscriptions' = EmptyMap
    /\ last' = [op |-> "connectRelays"]
    /\ sent' = {}
    /\ fired' = <<>>
    /\ raised' = FALSE
    /\ UNCHANGED <<verifyEvents, skipped, handlers, queue, dispatched, timers>>

\* ws.onopen of the socket of url in pool number pool (the current pool has
\* the highest number), with the page's onConnected handler:
\* relayPool.subscribe("event-links", [filter], [relayUrl]) and
\* relayPool.enablePing(relayUrl)
PageOpen(pool, url) ==
    /\ pool \in 1..(Len(oldPools) + 1)
    /\ IF pool = Len(oldPools) + 1
       THEN /\ url \in DOMAIN readyState
            /\ readyState[url] = "CONNECTING"
            /\ readyState' = [readyState EXCEPT ![url] = "OPEN"]
            /\ oldPools' = oldPools
       ELSE /\ url \in DOMAIN oldPools[pool].readyState
            /\ oldPools[pool].readyState[url] = "CONNECTING"
            /\ oldPools' = [oldPools EXCEPT ![pool].readyState[url] = "OPEN"]
            /\ readyState' = readyState
    /\ fired' = <<Call("onConnected", <<url>>)>>
    /\ LET targets == {u \in TargetRelays({url}) : readyState'[u] = "OPEN"}
       IN  /\ sent' = {<<u, <<"REQ", "event-links",
                               [kinds |-> <<39701>>, limit |-> <<200>>]>>>> :
                          u \in targets}
           /\ subscriptions' = SubscribeRegistry("event-links", targets)
    /\ timers' = Append(timers, [url |-> url, active |-> TRUE])
    /\ last' = [op |-> "open", url |-> url]
    /\ closeCalls' = {}
    /\ raised' = FALSE
    /\ UNCHANGED <<verifyEvents, relays, skipped, handlers, queue, dispatched>>

\* an onEose handler that subscribes after every end of stored events
onEoseSubscribesAlways(subId) == TRUE

\* the page's onEose handler: if (subId == "event-links")
onEoseSubscribes(subId) == subId = "event-links"

\* ws.onmessage of the socket of url in pool number pool, with the page's
\* onEose handler: relayPool.subscribe("author-metadata", [filter], [relayUrl])
PageMessage(pool, url, data) ==
    /\ pool \in 1..(Len(oldPools) + 1)
    /\ LET state == IF pool = Len(oldPools) + 1
                    THEN readyState ELSE oldPools[pool].readyState
       IN  url \in DOMAIN state /\ state[url] \in {"OPEN", "CLOSING"}
    /\ fired' = handleMessage(data, url)
    /\ LET calls == handleMessage(data, url)
           targets == IF \E i \in 1..Len(calls) :
                            /\ calls[i].cb = "onEose"
                            /\ onEoseSubscribes(calls[i].args[1])
                      THEN {u \in TargetRelays({url}) : IsOpen(u)}
                      ELSE {}
       IN  /\ sent' = {<<u, <<"REQ", "author-metadata", [kinds |-> <<0>>]>>>> :
                          u \in targets}
           /\ subscriptions' = SubscribeRegistry("author-metadata", targets)
    /\ last' = [op |-> "message", url |-> url, data |-> data]
    /\ closeCalls' = {}
    /\ raised' = FALSE
    /\ UNCHANGED <<verifyEvents, relays, readyState, skipped, handlers, queue,
                   dispatched, timers, oldPools>>

\* ws.onclose of the socket of url in pool number pool; the page's onClosed
\* handler only logs
PageClosed(pool, url) ==
    /\ pool \in 1..(Len(oldPools) + 1)
    /\ IF pool = Len(oldPools) + 1
       THEN /\ url \in DOMAIN readyState
            /\ readyState[url] # "CLOSED"
            /\ readyState' = [readyState EXCEPT ![url] = "CLOSED"]
            /\ oldPools' = oldPools
       ELSE /\ url \in DOMAIN oldPools[pool].readyState
            /\ oldPools[pool].readyState[url] # "CLOSED"
            /\ oldPools' = [oldPools EXCEPT ![pool].readyState[url] = "CLOSED"]
            /\ readyState' = readyState
    /\ fired' = <<Call("onClosed", <<url>>)>>
    /\ last' = [op |-> "closed", url |-> url]
    /\ sent' = {}
    /\ closeCalls' = {}
    /\ raised' = FALSE
    /\ UNCHANGED <<verifyEvents, relays, subscriptions, skipped, handlers,
                   queue, dispatched, timers>>

PageNext ==
    \/ connectRelays
    \/ \E pool \in 1..(MaxReconnects + 1), u \in ValidUrls : PageOpen(pool, u)
    \/ \E pool \in 1..(MaxReconnects + 1), u \in ValidUrls :
          \E items \in {<<"EOSE", "event-links">>, <<"EOSE", "author-metadata">>} :
              PageMessage(pool, u,
                          [parsed |-> TRUE, iterable |-> TRUE, items |-> items])
    \/ \E pool \in 1..(MaxReconnects + 1), u \in ValidUrls : PageClosed(pool, u)

PageSpec == PageInit /\ [][PageNext]_vars

(***************************************************************************)
(* Properties                                                              *)
(***************************************************************************)
IsEventMessage(l) ==
    /\ l.op = "message"
    /\ l.data.parsed
    /\ l.data.iterable
    /\ Len(l.data.items) = 3
    /\ l.data.items[1] = "EVENT"

\* C1: an inbound ["EVENT", subId, record] reaches the event callback if and
\* only if verification is disabled or the record passes verifyEvent; nothing
\* else is invoked for it
C1_EventGate ==
    IsEventMessage(last) =>
        LET subId == last.data.items[2]
            event == last.data.items[3]
            passes == verifyEvent(event) = Returned(TRUE)
        IN  /\ (~verifyEvents \/ passes) =>
                  fired = <<Call("onEvent", <<subId, event, last.url>>)>>
            /\ (verifyEvents /\ ~passes) => fired = <<>>

C1_Witness ==
    /\ IsEventMessage(last)
    /\ verifyEvents
    /\ verifyEvent(last.data.items[3]) # Returned(TRUE)
    /\ fired = <<>>

Present(event, field) == field \in DOMAIN event /\ event[field] # <<>>

\* the signature of the record was produced over hash with the private key
\* of the record's author
SignedByAuthor(event, hash) ==
    \E k \in KeyIds :
        /\ event.pubkey = bytesToHex(schnorrGetPublicKey(PrivateKeyBytes(k)))
        /\ hexWellFormed(event.sig)
        /\ Len(event.sig) = 2 * SigLen
        /\ hexToBytes(event.sig) =
              schnorrSign(hash, PrivateKeyBytes(k),
                          SubSeq(hexToBytes(event.sig), 1, KeyLen))

\* C2: verifyEvent returns true only for a record that has id and sig, whose
\* id is the hex of the hash of its current fields and whose sig is valid for
\* that hash under the author key; without id or sig, or with an id that does
\* not match the content, it returns false
C2_VerifyEvent ==
    last.op = "verifyEvent" =>
        LET event == last.event
            hash == sha256(Serialize(event))
            present == Present(event, "id") /\ Present(event, "sig")
        IN  /\ last.result = Returned(TRUE) =>
                  /\ present
                  /\ event.id = bytesToHex(hash)
                  /\ SignedByAuthor(event, hash)
            /\ (~present \/ event.id # bytesToHex(hash)) =>
                  last.result = Returned(FALSE)

\* a signature that is valid for the content, under an id that is not
C2_Witness ==
    /\ last.op = "verifyEvent"
    /\ Present(last.event, "id")
    /\ Present(last.event, "sig")
    /\ last.event.id # bytesToHex(sha256(Serialize(last.event)))
    /\ SignedByAuthor(last.event, sha256(Serialize(last.event)))
    /\ last.result = Returned(FALSE)

\* C3 as stated: every record signed with any valid key verifies
C3_AnyAuthor ==
    (last.op = "verifyEvent" /\ last.signed) => last.result = Returned(TRUE)

\* C3: a record whose author is the public key of the signing key verifies
\* after signing
C3_SignThenVerify ==
    (/\ last.op = "verifyEvent"
     /\ last.signed
     /\ last.event.pubkey = bytesToHex(schnorrGetPublicKey(PrivateKeyBytes(last.key))))
        => last.result = Returned(TRUE)

C3_Witness ==
    /\ last.op = "verifyEvent"
    /\ last.signed
    /\ last.event.pubkey = bytesToHex(schnorrGetPublicKey(PrivateKeyBytes(last.key)))
    /\ last.event.tags # <<>>
    /\ last.result = Returned(TRUE)

\* C4: after the transport-closed event of a peer, the peer is in neither the
\* connection map nor any subscription's peer set, and the closed callback
\* has fired with it
C4_ClosedForgets ==
    last.op = "closed" =>
        /\ last.url \notin relays
        /\ \A s \in DOMAIN subscriptions : last.url \notin subscriptions[s]
        /\ fired = <<Call("onClosed", <<last.url>>)>>

\* C5: no registry entry has an empty peer set
C5_NoEmptyEntry ==
    \A s \in DOMAIN subscriptions : subscriptions[s] # {}

\* an unsubscribe from all peers has just emptied and deleted an entry
C5_Witness ==
    /\ last.op = "unsubscribe"
    /\ last.relayUrls = {}
    /\ sent # {}
    /\ last.subId \notin DOMAIN subscriptions

PeersOf(subs, subId) == IF subId \in DOMAIN subs THEN subs[subId] ELSE {}

Targeted(relayUrls, known) ==
    IF relayUrls = {} THEN known ELSE relayUrls \cap known

OpenIn(urls) == {u \in urls : readyState[u] = "OPEN"}

\* C6: subscribe writes the REQ to exactly the targeted peers that are Open
\* and adds exactly those to the subscription's peer set; no entry is created
\* when there is none
C6_Subscribe ==
    [][last'.op = "subscribe" =>
        LET subId == last'.subId
            reached == OpenIn(Targeted(last'.relayUrls, relays))
        IN  /\ sent' = {<<u, <<"REQ", subId>> \o last'.filters>> : u \in reached}
            /\ PeersOf(subscriptions', subId) = PeersOf(subscriptions, subId) \cup reached
            /\ subId \in DOMAIN subscriptions' <=>
                  (subId \in DOMAIN subscriptions \/ reached # {})
            /\ \A s \in SubIds \ {subId} :
                  /\ s \in DOMAIN subscriptions' <=> s \in DOMAIN subscriptions
                  /\ PeersOf(subscriptions', s) = PeersOf(subscriptions, s)
            /\ relays' = relays
    ]_vars

\* a subscribe that reached one peer and skipped another targeted one
C6_Witness ==
    /\ last.op = "subscribe"
    /\ sent # {}
    /\ \E u \in Targeted(last.relayUrls, relays) :
          /\ readyState[u] # "OPEN"
          /\ u \notin PeersOf(subscriptions, last.subId)

\* C7: unsubscribe removes exactly the targeted peers of the subscription,
\* Open or not, writes CLOSE to those of them that are Open, deletes the entry
\* once empty and changes nothing else
C7_Unsubscribe ==
    [][last'.op = "unsubscribe" =>
        LET subId == last'.subId
            before == PeersOf(subscriptions, subId)
            removed == IF last'.relayUrls = {} THEN before
                       ELSE before \cap last'.relayUrls
        IN  /\ PeersOf(subscriptions', subId) = before \ removed
            /\ subId \in DOMAIN subscriptions' <=> before \ removed # {}
            /\ sent' = {<<u, <<"CLOSE", subId>>>> :
                            u \in {r \in removed \cap relays : readyState[r] = "OPEN"}}
            /\ \A s \in SubIds \ {subId} :
                  /\ s \in DOMAIN subscriptions' <=> s \in DOMAIN subscriptions
                  /\ PeersOf(subscriptions', s) = PeersOf(subscriptions, s)
            /\ relays' = relays
            /\ readyState' = readyState
    ]_vars

\* an unsubscribe from a subset that emptied the entry and wrote a CLOSE
C7_Witness ==
    /\ last.op = "unsubscribe"
    /\ last.relayUrls # {}
    /\ sent # {}
    /\ last.subId \notin DOMAIN subscriptions
    /\ DOMAIN subscriptions # {}

\* C8: close with a non-empty subset forgets every targeted peer of the map
\* and prunes it from the registry whatever its state, calls ws.close(1000)
\* on those that are Open only, and leaves the other peers as they are
C8_CloseSubset ==
    [][(last'.op = "close" /\ last'.relayUrls # {}) =>
        LET gone == last'.relayUrls \cap relays
        IN  /\ relays' = relays \ gone
            /\ \A s \in SubIds :
                  /\ PeersOf(subscriptions', s) = PeersOf(subscriptions, s) \ gone
                  /\ s \in DOMAIN subscriptions' <=>
                        PeersOf(subscriptions, s) \ gone # {}
            /\ closeCalls' = {<<u, 1000>> : u \in OpenIn(gone)}
            /\ \A u \in (DOMAIN readyState) \ gone : readyState'[u] = readyState[u]
    ]_vars

\* a close of one Open peer while another peer and its subscription stay
C8_Witness ==
    /\ last.op = "close"
    /\ last.relayUrls # {}
    /\ closeCalls # {}
    /\ relays # {}
    /\ DOMAIN subscriptions # {}

\* C9: close without a subset leaves an empty connection map and an empty
\* registry
C9_CloseAll ==
    (last.op = "close" /\ last.relayUrls = {}) =>
        /\ relays = {}
        /\ DOMAIN subscriptions = {}

\* a close of everything that found one peer Open and another one not
C9_Witness ==
    /\ last.op = "close"
    /\ last.relayUrls = {}
    /\ closeCalls # {}
    /\ \E u \in DOMAIN readyState : readyState[u] \in {"CONNECTING", "CLOSED"}
    /\ relays = {}

\* C10: an EVENT is written to a socket only by a publish call, and then to
\* exactly the targeted peers that are Open at the call; no other step writes
\* one, so a peer skipped by a publish does not get the record later
C10_Publish ==
    [][/\ \A u \in AllUrls :
             (\E m \in sent' : m[1] = u /\ m[2][1] = "EVENT") <=>
                 /\ last'.op = "publish"
                 /\ u \in OpenIn(Targeted(last'.relayUrls, relays))
       /\ \A m \in sent' :
             m[2][1] = "EVENT" => m[2] = <<"EVENT", last'.event>>
    ]_vars

\* a peer that a publish skipped has opened since, and nothing was written
C10_Witness ==
    /\ last.op = "open"
    /\ last.url \in skipped
    /\ last.url \in relays
    /\ readyState[last.url] = "OPEN"
    /\ sent = {}

\* C11: a publish call leaves the connection map, the registry and every
\* socket's state as they were, invokes no callback, closes nothing and does
\* not throw; it writes nothing to a url that is not in the map or whose
\* socket is not Open, so publish(record, [u]) with u Closed or unknown is
\* silent
C11_PublishFrame ==
    [][last'.op = "publish" =>
        /\ relays' = relays
        /\ subscriptions' = subscriptions
        /\ readyState' = readyState
        /\ fired' = <<>>
        /\ closeCalls' = {}
        /\ ~raised'
        /\ \A m \in sent' : m[1] \in relays /\ readyState[m[1]] = "OPEN"
        /\ (\A u \in last'.relayUrls :
                u \notin relays \/ readyState[u] = "CLOSED") /\ last'.relayUrls # {}
            => sent' = {}]_vars

\* a publish addressed to one url whose socket is Closed (it is still in the
\* map) has just returned without a write
C11_Witness ==
    /\ last.op = "publish"
    /\ last.relayUrls = {RelayB}
    /\ RelayB \in relays
    /\ readyState[RelayB] = "CLOSED"
    /\ sent = {}
    /\ ~raised

\* C12: verifyEvent ends by returning a boolean for every record, also for
\* one whose id matches its content while sig or pubkey is not hex
C12_NeverRaises ==
    last.op = "verifyEvent" => ~last.result.threw

\* C13: when one of pubkey, created_at, kind, tags, content of a record made
\* by signEvent is changed and id and sig are kept, the id no longer is the
\* hash of the fields and verifyEvent returns false; it returns at the id
\* comparison, so not even an author key that is not hex makes it throw
C13_Tamper ==
    (last.op = "verifyEvent" /\ last.tampered # "none") =>
        /\ last.event.id # bytesToHex(sha256(Serialize(last.event)))
        /\ last.result = Returned(FALSE)

\* the author key of a signed record was replaced by a string that is not hex
C13_Witness ==
    /\ last.op = "verifyEvent"
    /\ last.tampered = "pubkey"
    /\ ~hexWellFormed(last.event.pubkey)
    /\ hexWellFormed(last.event.sig)
    /\ last.result = Returned(FALSE)

\* C14: signEvent(r, k) leaves r as it was and returns a record with r's
\* pubkey, created_at, kind, tags and content plus a non-empty id and sig;
\* id is the hash of those five fields and sig the signature of that hash,
\* whatever id or sig r carried
C14_SignFrame ==
    last.op = "signEvent" =>
        LET r == last.event
            s == last.result
            hash == sha256(<<0, r.pubkey, r.created_at, r.kind, r.tags, r.content>>)
        IN  /\ last.after = r
            /\ DOMAIN s = {"pubkey", "created_at", "kind", "tags", "content",
                           "id", "sig"}
            /\ \A f \in {"pubkey", "created_at", "kind", "tags", "content"} :
                  s[f] = r[f]
            /\ Present(s, "id")
            /\ Present(s, "sig")
            /\ s.id = bytesToHex(hash)
            /\ s.sig = bytesToHex(schnorrSign(hash, PrivateKeyBytes(last.key),
                                              AuxBytes(last.aux)))

\* a record that came with the id and sig of another record has been signed
C14_Witness ==
    /\ last.op = "signEvent"
    /\ "id" \in DOMAIN last.event
    /\ "sig" \in DOMAIN last.event
    /\ last.after = last.event
    /\ last.result.id # last.event.id
    /\ last.result.sig # last.event.sig

\* C15: the id signEvent produces depends on pubkey, created_at, kind, tags
\* and content only: another private key, other signing randomness or an id
\* and sig already in the input give the same id, while the same record with
\* its tags reordered, repeated or with an inner tag reordered gets another id
C15_IdPure ==
    last.op = "signEvent" =>
        LET r == last.event
            id == last.result.id
            bare == [f \in {"pubkey", "created_at", "kind", "tags", "content"} |->
                        r[f]]
            stale == [f \in (DOMAIN bare) \cup {"id", "sig"} |->
                        IF f = "id" THEN <<"0", "0">>
                        ELSE IF f = "sig" THEN <<"1", "1">> ELSE bare[f]]
        IN  /\ \A k \in KeyIds, a \in 1..MaxAux :
                  /\ signEvent(bare, KeyArg(k), AuxBytes(a)).id = id
                  /\ signEvent(stale, KeyArg(k), AuxBytes(a)).id = id
            /\ \A i \in 1..Len(TagSamples) :
                  signEvent([bare EXCEPT !.tags = TagSamples[i]],
                            KeyArg(last.key), AuxBytes(last.aux)).id = id
                      <=> TagSamples[i] = r.tags

\* a record with a repeated tag that came with an id has been signed with the
\* second key
C15_Witness ==
    /\ last.op = "signEvent"
    /\ last.key = 2
    /\ last.aux = 2
    /\ \E i, j \in 1..Len(last.event.tags) :
          i # j /\ last.event.tags[i] = last.event.tags[j]
    /\ last.result.id = signEvent(last.event, KeyArg(1), AuxBytes(1)).id

\* C16: an inbound payload that is not JSON, is not a sequence or lacks
\* fields its tag requires invokes no callback and throws nothing
C16_MalformedDropped ==
    last.op = "message" =>
        LET data == last.data
            n == Len(data.items)
            required == IF n = 0 THEN 1
                        ELSE IF data.items[1] = "EVENT" THEN 3
                        ELSE IF data.items[1] = "OK" THEN 4
                        ELSE IF data.items[1] \in {"NOTICE", "EOSE", "CLOSED"} THEN 2
                        ELSE 1
        IN  (~data.parsed \/ ~data.iterable \/ n < required) =>
                fired = <<>> /\ ~raised

\* C17: an inbound NOTICE, EOSE, OK or CLOSED message from a peer invokes
\* exactly one callback, onNotice, onEose, onOk or onSubClosed respectively,
\* with the fields of the message followed by the peer's url; a message whose
\* tag is none of EVENT, NOTICE, EOSE, OK, CLOSED invokes none; no inbound
\* message changes the connection map or the registry
C17_Dispatch ==
    [][last'.op = "message" =>
        /\ relays' = relays
        /\ subscriptions' = subscriptions
        /\ (last'.data.parsed /\ last'.data.iterable /\ last'.data.items # <<>>) =>
              LET items == last'.data.items
                  tag == items[1]
                  u == last'.url
                  one(cb) == Len(fired') = 1 /\ fired'[1].cb = cb
              IN  /\ tag = "NOTICE" =>
                        /\ one("onNotice")
                        /\ Len(items) = 2 => fired'[1].args = <<items[2], u>>
                  /\ tag = "EOSE" =>
                        /\ one("onEose")
                        /\ Len(items) = 2 => fired'[1].args = <<items[2], u>>
                  /\ tag = "OK" =>
                        /\ one("onOk")
                        /\ Len(items) = 4 =>
                              fired'[1].args = <<items[2], items[3], items[4], u>>
                  /\ tag = "CLOSED" =>
                        /\ one("onSubClosed")
                        /\ Len(items) = 2 => fired'[1].args = <<items[2], u>>
                  /\ tag \notin {"EVENT", "NOTICE", "EOSE", "OK", "CLOSED"} =>
                        fired' = <<>>]_vars

\* an acknowledgement has reached the onOk handler with its three fields
C17_Witness ==
    /\ last.op = "message"
    /\ last.data.items # <<>>
    /\ last.data.items[1] = "OK"
    /\ Len(fired) = 1
    /\ fired[1].cb = "onOk"
    /\ fired[1].args = <<GoodEvent.id, TRUE, "", last.url>>
    /\ subscriptions # EmptyMap

C19_HandlerSlot ==
    [][/\ last'.op = "register" =>
            /\ handlers'[last'.cb] = last'.callback
            /\ \A c \in DOMAIN handlers \ {last'.cb} : handlers'[c] = handlers[c]
       /\ last'.op # "register" =>
            /\ handlers' = handlers
            /\ \A i \in 1..Len(fired') :
                  fired'[i].handler = handlers[fired'[i].cb]
            /\ last'.op \in {"open", "closed", "error"} => Len(fired') = 1
            /\ \A i, j \in 1..Len(fired') :
                  fired'[i].cb = fired'[j].cb => i = j]_vars

\* two functions were registered for onEvent, nothing for the other kinds,
\* and an EVENT of the connection made by the constructor has invoked the
\* second
C19_Witness ==
    /\ last.op = "message"
    /\ Len(fired) = 1
    /\ fired[1].cb = "onEvent"
    /\ fired[1].handler = 2
    /\ \A c \in DOMAIN handlers \ {"onEvent"} : handlers[c] = 0

\* C20: the constructor returns for every list of urls, and the connection
\* map then holds exactly the urls of the list that start with ws:// or
\* wss://
C20_Constructor ==
    last.op = "constructor" =>
        /\ ~raised
        /\ relays = {last.relayUrlList[i] : i \in
                        {j \in 1..Len(last.relayUrlList) :
                            \/ StartsWith(Chars(last.relayUrlList[j]),
                                          <<"w", "s", ":", "/", "/">>)
                            \/ StartsWith(Chars(last.relayUrlList[j]),
                                          <<"w", "s", "s", ":", "/", "/">>)}}

\* C21: a tick of a keepalive interval for url sends one PING to url when url
\* is in the connection map with an Open socket and sends nothing and clears
\* the interval otherwise; only intervals that were not cleared tick, and a
\* cleared interval stays cleared
C21_Keepalive ==
    [][/\ last'.op = "tick" =>
            LET id == last'.id
                u == last'.url
            IN  /\ timers[id].active
                /\ timers[id].url = u
                /\ (u \in relays /\ readyState[u] = "OPEN") =>
                      sent' = {<<u, <<"PING">>>>} /\ timers'[id].active
                /\ ~(u \in relays /\ readyState[u] = "OPEN") =>
                      sent' = {} /\ ~timers'[id].active
       /\ \A id \in 1..Len(timers) :
            ~timers[id].active => (Len(timers') >= id /\ ~timers'[id].active)]_vars

\* an interval has just been cleared by a tick that found its peer, still in
\* the map, Closed
C21_Witness ==
    /\ last.op = "tick"
    /\ last.url \in relays
    /\ readyState[last.url] = "CLOSED"
    /\ ~timers[last.id].active
    /\ sent = {}

\* C22: no two keepalive intervals of the same peer are active together
C22_OneTimer ==
    \A i, j \in 1..Len(timers) :
        (timers[i].active /\ timers[j].active /\ timers[i].url = timers[j].url)
            => i = j

\* the peer of interval id has stopped being Open: its socket is closing or
\* closed, or close has removed it from the connection map
C23_Gone(id) ==
    /\ id \in 1..Len(timers)
    /\ timers[id].active
    /\ \/ timers[id].url \notin relays
       \/ readyState[timers[id].url] \in {"CLOSING", "CLOSED"}

\* C23: while intervals keep ticking, every keepalive interval whose peer has
\* stopped being Open, by a transport close or by close(), is cleared in the
\* end; so after close() of all peers no interval stays active
C23_NoLeak ==
    \A id \in 1..MaxTimers :
        C23_Gone(id) ~> (id \in 1..Len(timers) /\ ~timers[id].active)

\* close() has emptied the connection map and the intervals set while the
\* peer was Open have all been cleared since
C23_Witness ==
    /\ relays = {}
    /\ RelayA \in DOMAIN readyState
    /\ readyState[RelayA] = "CLOSING"
    /\ Len(timers) = MaxTimers
    /\ \A id \in 1..Len(timers) : timers[id].url = RelayA /\ ~timers[id].active
    /\ last.op = "tick"

\* C24 as stated: a socket changes state only from Connecting to Open, Open
\* to Closing, Closing to Closed or Open to Closed
C24_ListedOnly ==
    [][\A u \in DOMAIN readyState :
          readyState'[u] # readyState[u] =>
              <<readyState[u], readyState'[u]>> \in
                  {<<"CONNECTING", "OPEN">>, <<"OPEN", "CLOSING">>,
                   <<"CLOSING", "CLOSED">>, <<"OPEN", "CLOSED">>}]_vars

\* C24: a socket, Connecting since the constructor made it, changes state
\* only from Connecting to Open, Connecting to Closed (the attempt failed),
\* Open to Closing, Closing to Closed or Open to Closed, so it is never Open
\* again after Closing or Closed; the open event makes it Open and invokes
\* the connected callback with its url
C24_Lifecycle ==
    [][/\ \A u \in DOMAIN readyState :
            /\ u \in DOMAIN readyState'
            /\ readyState'[u] # readyState[u] =>
                  <<readyState[u], readyState'[u]>> \in
                      {<<"CONNECTING", "OPEN">>, <<"CONNECTING", "CLOSED">>,
                       <<"OPEN", "CLOSING">>, <<"CLOSING", "CLOSED">>,
                       <<"OPEN", "CLOSED">>}
       /\ last'.op = "open" =>
            /\ readyState[last'.url] = "CONNECTING"
            /\ readyState'[last'.url] = "OPEN"
            /\ Len(fired') = 1
            /\ fired'[1].cb = "onConnected"
            /\ fired'[1].args = <<last'.url>>]_vars

\* a socket has just opened while the other one, closed by close(), is
\* Closing
C24_Witness ==
    /\ last.op = "open"
    /\ readyState[last.url] = "OPEN"
    /\ Len(fired) = 1
    /\ fired[1].cb = "onConnected"
    /\ \E u \in DOMAIN readyState : readyState[u] = "CLOSING" /\ u \notin relays

\* C25: the error event of a peer's socket invokes the error callback with
\* the peer's url and nothing else: the socket's state, the connection map
\* and the registry stay as they were and nothing is sent or closed
C25_ErrorFrame ==
    [][last'.op = "error" =>
        /\ Len(fired') = 1
        /\ fired'[1].cb = "onError"
        /\ fired'[1].args = <<last'.url>>
        /\ readyState' = readyState
        /\ relays' = relays
        /\ subscriptions' = subscriptions
        /\ sent' = {}
        /\ closeCalls' = {}]_vars

\* an Open peer with a subscription has just had an error event
C25_Witness ==
    /\ last.op = "error"
    /\ last.url \in relays
    /\ readyState[last.url] = "OPEN"
    /\ \E sid \in DOMAIN subscriptions : last.url \in subscriptions[sid]
    /\ Len(fired) = 1
    /\ fired[1].cb = "onError"

\* C26: no private-key handle has raw bytes of a length other than 32:
\* every handle the NostrKeyPair constructor, fromHex, fromBytes and fromNsec
\* return has 32 bytes, every string Nostr.recoverKey and Nostr.nsecToHex
\* return has 64 hex digits, and each of these calls fails when its input
\* decodes to another length and when its hex input does not decode.
C26_PrivateLength ==
    /\ (last.op \in KeyPairOps /\ ~last.result.threw)
          => Len(last.result.value.bytes) = 32
    /\ (last.op = "Nostr.recoverKey" /\ ~last.result.threw)
          => Len(last.result.value.privateKey) = 64
    /\ (last.op = "Nostr.nsecToHex" /\ ~last.result.threw)
          => Len(last.result.value) = 64
    /\ ( /\ last.op \in {"NostrKeyPair", "NostrKeyPair.fromHex", "Nostr.recoverKey"}
         /\ last.arg.type = "string"
         /\ (~hexWellFormed(last.arg.value) \/ Len(last.arg.value) # 64) )
          => last.result.threw
    /\ ( /\ last.op \in {"NostrKeyPair", "NostrKeyPair.fromBytes"}
         /\ last.arg.type = "bytes"
         /\ Len(last.arg.value) # 32 )
          => last.result.threw
    /\ ( /\ last.op \in {"NostrKeyPair.fromNsec", "Nostr.nsecToHex"}
         /\ bech32Decode(last.arg.value).ok
         /\ fromWordsOk(bech32Decode(last.arg.value).words)
         /\ Len(fromWords(bech32Decode(last.arg.value).words)) # 32 )
          => last.result.threw

\* fromNsec was given a checksummed private string with a payload of 31 bytes
\* and failed
C26_Witness ==
    /\ last.op = "NostrKeyPair.fromNsec"
    /\ bech32Decode(last.arg.value).ok
    /\ bech32Decode(last.arg.value).prefix = Nsec
    /\ fromWordsOk(bech32Decode(last.arg.value).words)
    /\ Len(fromWords(bech32Decode(last.arg.value).words)) = 31
    /\ last.result.threw

\* C27: no public-key handle has bytes of a length other than 32: every
\* handle the NostrPublicKey constructor, NostrPublicKey.fromHex and
\* NostrPublicKey.fromNpub return has 32 bytes.
C27_PublicLength ==
    (last.op \in PublicKeyOps /\ ~last.result.threw)
        => Len(last.result.value.bytes) = 32

\* C28: a checksummed string whose prefix is not the expected one is never
\* decoded: fromNsec and nsecToHex fail on every well-formed string whose
\* prefix is not "nsec", fromNpub and npubToHex on every one whose prefix is
\* not "npub".
C28_WrongPrefix ==
    /\ ( /\ last.op \in {"NostrKeyPair.fromNsec", "Nostr.nsecToHex"}
         /\ bech32Decode(last.arg.value).ok
         /\ bech32Decode(last.arg.value).prefix # <<"n", "s", "e", "c">> )
          => last.result.threw
    /\ ( /\ last.op \in {"NostrPublicKey.fromNpub", "Nostr.npubToHex"}
         /\ bech32Decode(last.arg.value).ok
         /\ bech32Decode(last.arg.value).prefix # <<"n", "p", "u", "b">> )
          => last.result.threw

\* nsecToHex was given the npub string of a public-key handle, a string with
\* a valid checksum and a payload of 32 bytes, and failed
C28_Witness ==
    /\ last.op = "Nostr.nsecToHex"
    /\ last.depth = 2
    /\ last.origin.op \in PublicKeyOps
    /\ last.arg.value = last.origin.result.value.npub
    /\ Len(last.origin.result.value.bytes) = 32
    /\ bech32Decode(last.arg.value).ok
    /\ last.result.threw

\* C29: a caller never receives the same error for two causes: the error
\* the NostrKeyPair constructor raises for hex of a wrong length is not the
\* error it raises for a string that does not decode, and the error
\* nsecToHex raises for a wrong prefix is not the error it raises for a
\* payload of a wrong length.
C29_DistinctErrors ==
    /\ ( /\ last.op = "NostrKeyPair"
         /\ last.arg.type = "string"
         /\ hexWellFormed(last.arg.value)
         /\ Len(last.arg.value) # 64
         /\ last.result.threw )
          => \A other \in KeyStringSamples :
                ~hexWellFormed(other)
                    => NostrKeyPair(StringArg(other)).error # last.result.error
    /\ ( /\ last.op = "Nostr.nsecToHex"
         /\ bech32Decode(last.arg.value).ok
         /\ bech32Decode(last.arg.value).prefix # <<"n", "s", "e", "c">>
         /\ last.result.threw )
          => \A other \in KeyStringSamples :
                ( /\ bech32Decode(other).ok
                  /\ bech32Decode(other).prefix = <<"n", "s", "e", "c">>
                  /\ fromWordsOk(bech32Decode(other).words)
                  /\ Len(fromWords(bech32Decode(other).words)) # 32 )
                    => nsecToHex(other).error # last.result.error

\* C30: encodings round-trip for every valid 32-byte key: with h the hex
\* encoding of a key, nsecToHex(hexToNsec(h)) and npubToHex(hexToNpub(h))
\* return h, and a handle rebuilt from the bytes, the hex or the checksummed
\* string of a handle of 32 bytes is equal to that handle in every field.
C30_RoundTrip ==
    last.depth = 2 =>
        LET first == last.origin
            h == first.arg.value
            handle == first.result.value
        IN  /\ ( /\ first.op = "Nostr.hexToNsec"
                 /\ last.op = "Nostr.nsecToHex"
                 /\ h = bytesToHex(hexToBytes(h)) )
                  => (~last.result.threw /\ last.result.value = h)
            /\ ( /\ first.op = "Nostr.hexToNpub"
                 /\ last.op = "Nostr.npubToHex"
                 /\ h = bytesToHex(hexToBytes(h)) )
                  => (~last.result.threw /\ last.result.value = h)
            /\ ( /\ first.op \in KeyPairOps
                 /\ \/ /\ last.op = "NostrKeyPair.fromNsec"
                       /\ last.arg.value = handle.nsec
                    \/ /\ last.op \in {"NostrKeyPair", "NostrKeyPair.fromHex"}
                       /\ last.arg.type = "string"
                       /\ last.arg.value = handle.hex
                    \/ /\ last.op \in {"NostrKeyPair", "NostrKeyPair.fromBytes"}
                       /\ last.arg.type = "bytes"
                       /\ last.arg.value = handle.bytes )
                  => (~last.result.threw /\ last.result.value = handle)
            /\ ( /\ first.op \in PublicKeyOps
                 /\ Len(handle.bytes) = 32
                 /\ \/ /\ last.op = "NostrPublicKey.fromNpub"
                       /\ last.arg.value = handle.npub
                    \/ /\ last.op \in {"NostrPublicKey", "NostrPublicKey.fromHex"}
                       /\ last.arg.type = "string"
                       /\ last.arg.value = handle.hex
                    \/ /\ last.op = "NostrPublicKey"
                       /\ last.arg.type = "bytes"
                       /\ last.arg.value = handle.bytes )
                  => (~last.result.threw /\ last.result.value = handle)

\* a key pair was rebuilt by fromNsec from the nsec string of a key pair
C30_Witness ==
    /\ last.depth = 2
    /\ last.op = "NostrKeyPair.fromNsec"
    /\ last.origin.op \in KeyPairOps
    /\ last.arg.value = last.origin.result.value.nsec
    /\ ~last.result.threw
    /\ last.result.value.hex = last.origin.result.value.hex

\* C31: a handle never changes: after a write to the byte array the caller
\* passed to the NostrKeyPair or NostrPublicKey constructor, the handle's
\* fields are what they were at construction and its hex is the hex of its
\* bytes.
C31_Immutable ==
    last.op = "write" =>
        /\ last.result.value = last.origin.result.value
        /\ last.result.value.hex = bytesToHex(last.result.value.bytes)

\* C32: p.verifyEvent(e) is true only for a signature valid under p's own
\* key: for an event signed by the sample key k and attributed to k, the
\* handle of another sample key p returns something other than true.
C32_OwnKey ==
    ( /\ last.op = "NostrPublicKey.verifyEvent"
      /\ last.handle # last.key
      /\ last.event.pubkey = bytesToHex(schnorrGetPublicKey(PrivateKeyBytes(last.key))) )
        => last.result # [threw |-> FALSE, value |-> TRUE]

\* C33: getRelayUrls returns the relays currently connected: every url it
\* returns has an Open connection, and every peer that is in the map with an
\* Open connection is returned.
C33_Connected ==
    /\ \A u \in getRelayUrls : readyState[u] = "OPEN"
    /\ \A u \in relays : readyState[u] = "OPEN" => u \in getRelayUrls

\* C34: in every reachable state, every peer url in the peer set of a
\* subscription is a key of the connection map.
C34_RegistryInMap ==
    \A subId \in DOMAIN subscriptions : subscriptions[subId] \subseteq relays

\* close has removed one peer with explicit urls while another peer still
\* holds a subscription
C34_Witness ==
    /\ last.op = "close"
    /\ \E u \in last.relayUrls : u \in DOMAIN readyState /\ u \notin relays
    /\ \E subId \in DOMAIN subscriptions : subscriptions[subId] # {}

\* C35: the connection map never grows after construction: the constructor
\* leaves in it only urls of its argument that pass the scheme test, and no
\* step of the pool adds a url to it.
C35_NeverGrows ==
    /\ [](last.op = "constructor" =>
            relays \subseteq {last.relayUrlList[i] : i \in 1..Len(last.relayUrlList)}
                                \cap {u \in AllUrls : SchemeTest(u)})
    /\ [][relays' \subseteq relays]_vars

\* subscribe was called with a url that is not in the map, and the map does
\* not contain it afterwards
C35_Witness ==
    /\ last.op = "subscribe"
    /\ relays # {}
    /\ \E u \in last.relayUrls : u \notin relays

\* C36: once close has removed a peer from the connection map, the
\* connected callback and the message callbacks are never fired for it:
\* every open event and every message event that fires a callback belongs
\* to a peer that is in the map.
C36_NoOrphan ==
    [][(last'.op \in {"open", "message"} /\ fired' # <<>>)
            => last'.url \in relays']_vars

\* C37: after close has called ws.close on an Open peer, the closed callback
\* eventually fires for that peer, which is no longer in the map; the close
\* event of a connection fires it only while the connection is not yet
\* Closed, and a Closed connection stays Closed, so it fires at most once.
C37_ClosedFires ==
    /\ \A u \in ValidUrls :
          (last.op = "close" /\ <<u, 1000>> \in closeCalls)
              ~> ( /\ last.op = "closed"
                   /\ last.url = u
                   /\ u \notin relays
                   /\ fired = <<[cb |-> "onClosed", args |-> <<u>>,
                                 handler |-> handlers["onClosed"]]>> )
    /\ [][ /\ last'.op = "closed" => readyState[last'.url] # "CLOSED"
           /\ \A u \in DOMAIN readyState :
                 readyState[u] = "CLOSED" => readyState'[u] = "CLOSED" ]_vars

\* the closed callback has fired for a peer that close had removed
C37_Witness ==
    /\ last.op = "closed"
    /\ last.url \notin relays
    /\ fired # <<>>
    /\ fired[1].cb = "onClosed"

\* C38: an exception a registered handler raises while a message is
\* dispatched does not leave handleMessage: the step raises nothing, leaves
\* the connection map, the sockets and the registry as they were, and the
\* next message is dispatched to its callback all the same.
C38_HandlerThrows ==
    [][ /\ (last'.op = "message" /\ last'.threw)
            => ( /\ ~raised'
                 /\ relays' = relays
                 /\ readyState' = readyState
                 /\ subscriptions' = subscriptions )
        /\ (last.op = "message" /\ last.threw /\ last'.op = "message")
            => ( /\ Len(fired') = 1
                 /\ fired'[1].handler = handlers[fired'[1].cb]
                 /\ fired'[1].args[Len(fired'[1].args)] = last'.url ) ]_vars

\* a registered handler has thrown while a message was dispatched
C38_Witness ==
    /\ last.op = "message"
    /\ last.threw
    /\ ~raised
    /\ fired # <<>>
    /\ fired[1].handler # 0

====
